---- MODULE Spec2Model ----
(***************************************************************************)
(* A model of the batch processing engine of src/batch_processor.py:       *)
(* the job queue, the active and completed maps, the background            *)
(* dispatcher thread, the job wrappers run by the shared thread pool, the  *)
(* per-batch item pool of _process_batch_sync and the asyncio path of      *)
(* process_batch.                                                          *)
(***************************************************************************)
EXTENDS Integers, Sequences, FiniteSets, TLC

\* ------------------------------------------------------------------ bounds
\* Jobs submitted through submit_job in one run of the queued-path model (Spec).
MaxJobs == 2
\* Largest max_concurrent_batches the processor is constructed with.
MaxLimit == 2
\* Hours the clock can advance.
MaxTime == 2
\* Items in the single job or the single process_batch call of SpecBatch.
BatchItems == 3
\* Largest max_concurrent a process_batch call is given.
MaxConcurrent == 2

\* BatchProcessor.__init__(max_workers=...): size of self.executor and of the
\* per-batch pool of _process_batch_sync.
max_workers == 2
MaxPriority == 1
\* Rows of the input file of a process_json_file / process_csv_file call,
\* and its largest batch_size.
MaxRows == 3
MaxBatchSize == 2

\* _cleanup_old_jobs(max_age_hours=1)
max_age_hours == 1

\* ------------------------------------------------------------- pure helpers
\* Optional[...] fields: None is the empty set, a set value is a singleton.
None == {}
Some(v) == {v}

Range(s) == {s[i] : i \in DOMAIN s}

\* sum(1 for r in results if r.success) and sum(1 for r in results if not r.success)
CountSuccess(rs, flag) == Cardinality({k \in DOMAIN rs : rs[k].success = flag})

\* Prompts are short character sequences; " " is whitespace.
IsSpace(c) == c = " "

RECURSIVE LStrip(_)
LStrip(s) == IF s # <<>> /\ IsSpace(Head(s)) THEN LStrip(Tail(s)) ELSE s

RECURSIVE RStrip(_)
RStrip(s) ==
    IF s # <<>> /\ IsSpace(s[Len(s)]) THEN RStrip(SubSeq(s, 1, Len(s) - 1)) ELSE s

Strip(s) == RStrip(LStrip(s))

\* prompt_craft.validate_input (not under src/; from the spec's Validator
\* contract and tests/test_prompt_craft.py): trims the input and raises
\* ValidationError("Input cannot be empty") when nothing is left.
validate_input(prompt) ==
    LET v == Strip(prompt)
    IN  IF v = <<>>
        THEN [raised |-> TRUE, error |-> "Input cannot be empty", value |-> <<>>]
        ELSE [raised |-> FALSE, error |-> "", value |-> v]

\* The configurations the processor is constructed with: the default one
\* of create_default_config, and one without the "keywords" table.
Configs == {"default", "no_keywords"}

\* prompt_craft.enhance_prompt -> _enhanced_basic_prompt: config["keywords"]
\* raises KeyError when the table is missing; no keyword of the default
\* table occurs in the model's prompts, so the "general" template is chosen
\* and {user_input} is replaced by the input.
enhance_prompt(cfg, user_input) ==
    IF cfg = "no_keywords"
    THEN [raised |-> TRUE, error |-> "'keywords'",
          enhanced |-> <<>>, template_used |-> ""]
    ELSE [raised |-> FALSE, error |-> "",
          enhanced |-> <<"Expert Consultation: ">> \o user_input,
          template_used |-> "Expert Consultation"]

\* The BatchResult of the success branch (batch_processor.py:251-258, 215-222).
SuccessResult(id, e) ==
    [id |-> id, success |-> TRUE, enhanced_prompt |-> Some(e.enhanced),
     template_used |-> Some(e.template_used), error_message |-> None]

\* Mutant of FailureResult: the except branch keeps a value in enhanced_prompt.
FailureResultWithPrompt(id, msg) ==
    [id |-> id, success |-> FALSE, enhanced_prompt |-> Some(<<>>),
     template_used |-> None, error_message |-> Some(msg)]

\* The BatchResult of the except branch (batch_processor.py:263-269, 227-233).
FailureResult(id, msg) ==
    [id |-> id, success |-> FALSE, enhanced_prompt |-> None,
     template_used |-> None, error_message |-> Some(msg)]

\* _process_batch_sync.process_item and the body of _process_single_item_async:
\* validate, enhance, and turn any exception into a failed BatchResult.
process_item(cfg, item) ==
    LET v == validate_input(item.prompt)
    IN  IF v.raised THEN FailureResult(item.id, v.error)
        ELSE LET e == enhance_prompt(cfg, v.value)
             IN  IF e.raised THEN FailureResult(item.id, e.error)
                 ELSE SuccessResult(item.id, e)

\* ------------------------------------------------------------------- state
VARIABLES
    config,                  \* self.config
    max_concurrent_batches,  \* self.max_concurrent_batches
    names_bound,             \* TRUE iff the module runs as __main__, which binds
                             \* os and timedelta (batch_processor.py:585-588)
    now,                     \* datetime.utcnow(), in hours
    jobs,                    \* every BatchJob created by submit_job, by job_id
    job_queue,               \* self.job_queue, as job_ids
    active_jobs,             \* keys of self.active_jobs
    completed_jobs,          \* self.completed_jobs: job_id -> record
    executor_queue,          \* work submitted to self.executor, not yet started
    wpc,                     \* per job: where its job_wrapper stands
    item_state,              \* per job and item: "pending", "running" or "done" in
                             \* the batch's own pool
    results,                 \* per job: the results list of _process_batch_sync
    disp_pc,                 \* where the dispatcher thread stands in its loop
    disp_job,                \* the dispatcher's local variable job (0: none)
    cancelled,               \* job_ids for which cancel_job returned True
    evicted,                 \* job_ids _cleanup_old_jobs removed
    callback_log,            \* the calls of _send_callback, in order
    shutdown_event,          \* self.shutdown_event is set
    shut_pc,                 \* position of the caller of shutdown()
    executor_down,           \* self.executor no longer accepts work
    d_pc,                    \* process_batch: "idle", "running" or "returned"
    d_items,                 \* process_batch: items
    d_state,                 \* process_batch: per task, where it stands
    d_slots,                 \* process_batch: gather's result list, by position
    d_sem,                   \* process_batch: value of the semaphore
    d_max_concurrent,        \* process_batch: its max_concurrent argument
    d_return,                \* process_batch: the returned final_results
    last_cancel,             \* the last cancel_job call: its job_id and return value
    q_pc,                    \* a get_job_status call: the line it stands at
    q_job,                   \* a get_job_status call: its job_id argument
    q_result,                \* a get_job_status call: what the last call returned
    q_reported,              \* per job_id: rank of the furthest status a call
                             \* has reported so far (0: none yet)
    f_pc,                    \* a process_json_file / process_csv_file call: where
                             \* it stands
    f_kind,                  \* "json" or "csv"
    f_data,                  \* the rows read from the input file (their prompts)
    f_batch_size,            \* its batch_size argument
    f_i,                     \* the loop variable i: offset of the current chunk
    f_items,                 \* items of the current chunk
    f_state,                 \* per item of the chunk: "pending", "running", "done"
    f_batch,                 \* results of _process_batch_sync for the chunk
    f_results,               \* the list results
    f_output                 \* output_data as written to the output file

vars == <<config, max_concurrent_batches, names_bound, now, jobs, job_queue,
          active_jobs, completed_jobs, executor_queue, wpc, item_state, results,
          disp_pc, disp_job, cancelled, evicted, callback_log,
          shutdown_event, shut_pc, executor_down,
          d_pc, d_items, d_state, d_slots, d_sem, d_max_concurrent, d_return,
          last_cancel, q_pc, q_job, q_result, q_reported,
          f_pc, f_kind, f_data, f_batch_size, f_i, f_items, f_state, f_batch,
          f_results, f_output>>

registry_vars == <<jobs, job_queue, active_jobs, completed_jobs, wpc, item_state,
                   results, disp_pc, disp_job, cancelled, evicted>>
direct_vars == <<d_pc, d_items, d_state, d_slots, d_sem, d_max_concurrent,
                 d_return>>
setup_vars == <<config, max_concurrent_batches, names_bound>>
shutdown_vars == <<shutdown_event, shut_pc, executor_down>>
file_vars == <<f_pc, f_kind, f_data, f_batch_size, f_i, f_items, f_state, f_batch,
               f_results, f_output>>
status_vars == <<q_pc, q_job, q_result, q_reported>>
client_vars == <<last_cancel, q_pc, q_job, q_result, q_reported>>

JobIds == 1..Len(jobs)

\* BatchProcessor.__init__ (and the module's import, which decides names_bound)
InitWith(configs) ==
    /\ config \in configs
    /\ max_concurrent_batches \in 0..MaxLimit   \* line 70: any int is accepted
    /\ names_bound \in BOOLEAN
    /\ now = 0
    /\ jobs = <<>>
    /\ job_queue = <<>>
    /\ active_jobs = {}
    /\ completed_jobs = <<>>
    /\ executor_queue = <<>>
    /\ wpc = <<>>
    /\ item_state = <<>>
    /\ results = <<>>
    /\ disp_pc = "check"
    /\ disp_job = 0
    /\ cancelled = {}
    /\ evicted = {}
    /\ callback_log = <<>>
    /\ shutdown_event = FALSE
    /\ shut_pc = "idle"
    /\ executor_down = FALSE
    /\ d_pc = "idle"
    /\ d_items = <<>>
    /\ d_state = <<>>
    /\ d_slots = <<>>
    /\ d_sem = 0
    /\ d_max_concurrent = 0
    /\ d_return = <<>>
    /\ last_cancel = None
    /\ q_pc = "idle"
    /\ q_job = 0
    /\ q_result = None
    /\ q_reported = [job_id \in 0..MaxJobs |-> 0]
    /\ f_pc = "idle"
    /\ f_kind = "json"
    /\ f_data = <<>>
    /\ f_batch_size = 0
    /\ f_i = 0
    /\ f_items = <<>>
    /\ f_state = <<>>
    /\ f_batch = <<>>
    /\ f_results = <<>>
    /\ f_output = <<>>

\* The prompts callers submit: one that validates after trimming, one that
\* is whitespace only.
Prompts == {<<" ", "a">>, <<" ">>}

\* Prompt lists of at most n prompts.
PromptLists(n) == UNION {[1..k -> Prompts] : k \in 0..n}

\* The BatchItems a caller of submit_job builds, ids "1", "2", ... in order
\* (as in test_new_features.py:174-178).
ItemsOf(prompts) == [i \in DOMAIN prompts |-> [id |-> i, prompt |-> prompts[i]]]

\* ------------------------------------------------------------- submit_job
\* Mutant of put: the job goes in front of the queued jobs of lower priority.
put_by_priority(queue, job) ==
    LET ahead == SelectSeq(queue, LAMBDA k : jobs[k].priority >= job.priority)
        behind == SelectSeq(queue, LAMBDA k : jobs[k].priority < job.priority)
    IN  ahead \o <<job.job_id>> \o behind

\* Line 305: self.job_queue.put(job), on a queue.Queue.
put(queue, job) == Append(queue, job.job_id)

\* Mutant of submit_job: the queue has a maximum size and put waits while
\* it is full.
submit_job_bounded(items, user_id, priority, callback_url) ==
    LET job_id == Len(jobs) + 1
        job == [job_id |-> job_id, items |-> items, user_id |-> user_id,
                priority |-> priority, callback_url |-> callback_url]
    IN  /\ Len(job_queue) < 1
        /\ jobs' = Append(jobs, job)
        /\ job_queue' = put(job_queue, job)
        /\ wpc' = Append(wpc, "none")
        /\ item_state' = Append(item_state, [i \in DOMAIN items |-> "pending"])
        /\ results' = Append(results, <<>>)
        /\ UNCHANGED <<active_jobs, completed_jobs, executor_queue, disp_pc,
                       disp_job, cancelled, evicted, now>>
        /\ UNCHANGED setup_vars
        /\ UNCHANGED file_vars
        /\ UNCHANGED shutdown_vars
        /\ UNCHANGED callback_log
        /\ UNCHANGED client_vars
        /\ UNCHANGED direct_vars

\* Lines 290-308. created_at is written here and only echoed by
\* get_job_status (line 327); it is left out.
submit_job(items, user_id, priority, callback_url) ==
    LET job_id == Len(jobs) + 1     \* uuid4: an id never issued before
        job == [job_id |-> job_id, items |-> items, user_id |-> user_id,
                priority |-> priority, callback_url |-> callback_url]
    IN  /\ jobs' = Append(jobs, job)
        /\ job_queue' = put(job_queue, job)
        /\ wpc' = Append(wpc, "none")
        /\ item_state' = Append(item_state, [i \in DOMAIN items |-> "pending"])
        /\ results' = Append(results, <<>>)
        /\ UNCHANGED <<active_jobs, completed_jobs, executor_queue, disp_pc,
                       disp_job, cancelled, evicted, now>>
        /\ UNCHANGED setup_vars
        /\ UNCHANGED file_vars
        /\ UNCHANGED shutdown_vars
        /\ UNCHANGED callback_log
        /\ UNCHANGED client_vars
        /\ UNCHANGED direct_vars

\* ------------------------------------------------- _background_processor
\* Mutant of dispatcher_check: the size of the active map is not tested.
dispatcher_check_unlimited ==
    /\ disp_pc = "check"
    /\ disp_pc' = IF job_queue # <<>> THEN "get" ELSE "cleanup"
    /\ UNCHANGED <<jobs, job_queue, active_jobs, completed_jobs, executor_queue,
                   wpc, item_state, results, disp_job, cancelled, evicted, now>>
    /\ UNCHANGED setup_vars
    /\ UNCHANGED file_vars
    /\ UNCHANGED shutdown_vars
    /\ UNCHANGED callback_log
    /\ UNCHANGED client_vars
    /\ UNCHANGED direct_vars

\* Line 105: the dispatcher reads the queue and the size of the active map.
dispatcher_check ==
    /\ disp_pc = "check"
    /\ disp_pc' = IF job_queue # <<>>
                     /\ Cardinality(active_jobs) < max_concurrent_batches
                  THEN "get" ELSE "cleanup"
    /\ UNCHANGED <<jobs, job_queue, active_jobs, completed_jobs, executor_queue,
                   wpc, item_state, results, disp_job, cancelled, evicted, now>>
    /\ UNCHANGED setup_vars
    /\ UNCHANGED file_vars
    /\ UNCHANGED shutdown_vars
    /\ UNCHANGED callback_log
    /\ UNCHANGED client_vars
    /\ UNCHANGED direct_vars

\* Line 106: job = self.job_queue.get_nowait()
dispatcher_get ==
    /\ disp_pc = "get"
    /\ disp_job' = Head(job_queue)
    /\ job_queue' = Tail(job_queue)
    /\ disp_pc' = "submit"
    /\ UNCHANGED <<jobs, active_jobs, completed_jobs, executor_queue, wpc,
                   item_state, results, cancelled, evicted, now>>
    /\ UNCHANGED setup_vars
    /\ UNCHANGED file_vars
    /\ UNCHANGED shutdown_vars
    /\ UNCHANGED callback_log
    /\ UNCHANGED client_vars
    /\ UNCHANGED direct_vars

\* The work items of self.executor: a job_wrapper or one enhance_prompt call
\* of process_batch.
JobWork(j) == [kind |-> "job", n |-> j]
EnhanceWork(i) == [kind |-> "enhance", n |-> i]

\* Mutant of LoopTest: the loop does not look at the shutdown event.
LoopTestForever == "check"

\* Line 102: the test of the while loop, which the dispatcher reaches when
\* an iteration is over (after the sleep of line 112 or of line 116).
LoopTest == IF shutdown_event THEN "stopped" ELSE "check"

\* Lines 107, 151-152: self._process_job_async(job) hands job_wrapper to the
\* pool. A pool that was shut down raises RuntimeError from submit: line 114
\* catches it and the job, already off the queue, is dropped.
dispatcher_submit ==
    /\ disp_pc = "submit"
    /\ IF executor_down
       THEN /\ disp_pc' = LoopTest
            /\ UNCHANGED <<executor_queue, wpc>>
       ELSE /\ executor_queue' = Append(executor_queue, JobWork(disp_job))
            /\ wpc' = [wpc EXCEPT ![disp_job] = "pending"]
            /\ disp_pc' = "cleanup"
    /\ disp_job' = 0
    /\ UNCHANGED <<jobs, job_queue, active_jobs, completed_jobs, item_state,
                   results, cancelled, evicted, now>>
    /\ UNCHANGED setup_vars
    /\ UNCHANGED file_vars
    /\ UNCHANGED shutdown_vars
    /\ UNCHANGED callback_log
    /\ UNCHANGED client_vars
    /\ UNCHANGED direct_vars

\* Mutant of jobs_to_remove: every entry is removed, whatever its age.
jobs_to_remove_any_age == DOMAIN completed_jobs

\* _cleanup_old_jobs: the job_ids whose completed_at is before the cutoff.
jobs_to_remove ==
    {j \in DOMAIN completed_jobs :
        completed_jobs[j].completed_at < now - max_age_hours}

Without(f, ks) == [k \in DOMAIN f \ ks |-> f[k]]

\* Mutant of dispatcher_cleanup: the NameError is not caught and ends the
\* dispatcher thread.
dispatcher_cleanup_uncaught ==
    /\ disp_pc = "cleanup"
    /\ IF names_bound
       THEN /\ completed_jobs' = Without(completed_jobs, jobs_to_remove)
            /\ evicted' = evicted \cup jobs_to_remove
            /\ disp_pc' = LoopTest
       ELSE /\ disp_pc' = "dead"
            /\ UNCHANGED <<completed_jobs, evicted>>
    /\ UNCHANGED <<jobs, job_queue, active_jobs, executor_queue, wpc, item_state,
                   results, disp_job, cancelled, now>>
    /\ UNCHANGED setup_vars
    /\ UNCHANGED file_vars
    /\ UNCHANGED shutdown_vars
    /\ UNCHANGED callback_log
    /\ UNCHANGED client_vars
    /\ UNCHANGED direct_vars

\* Lines 110-116 and 366-381: self._cleanup_old_jobs(), then the sleep. Unless
\* the module runs as __main__, timedelta is unbound: line 368 raises
\* NameError, which line 114 catches, and nothing is evicted.
dispatcher_cleanup ==
    /\ disp_pc = "cleanup"
    /\ IF names_bound
       THEN /\ completed_jobs' = Without(completed_jobs, jobs_to_remove)
            /\ evicted' = evicted \cup jobs_to_remove
       ELSE UNCHANGED <<completed_jobs, evicted>>
    /\ disp_pc' = LoopTest
    /\ UNCHANGED <<jobs, job_queue, active_jobs, executor_queue, wpc, item_state,
                   results, disp_job, cancelled, now>>
    /\ UNCHANGED setup_vars
    /\ UNCHANGED file_vars
    /\ UNCHANGED shutdown_vars
    /\ UNCHANGED callback_log
    /\ UNCHANGED client_vars
    /\ UNCHANGED direct_vars

\* ------------------------------------------------------- self.executor
\* Threads of self.executor that are running work.
BusyWorkers ==
    Cardinality({j \in JobIds : wpc[j] \in {"batch", "except", "except_lookup", "callback", "finally"}})
    + Cardinality({i \in DOMAIN d_state : d_state[i] = "enhancing"})

\* ---------------------------------------------- _process_job_async.job_wrapper
\* A free thread of self.executor takes the wrapper of job j off the work
\* queue and runs lines 122-123 up to the submission of the items to the
\* batch's own pool (lines 272-273); thread_ok is FALSE when that pool
\* cannot start a thread for the first item (RuntimeError), which is raised
\* outside item-level isolation and reaches the except branch of line 139.
job_wrapper_start(j, thread_ok) ==
    /\ executor_queue # <<>>
    /\ Head(executor_queue) = JobWork(j)
    /\ BusyWorkers < max_workers
    /\ executor_queue' = Tail(executor_queue)
    /\ active_jobs' = active_jobs \cup {j}
    /\ wpc' = [wpc EXCEPT ![j] = IF thread_ok THEN "batch" ELSE "except"]
    /\ UNCHANGED <<jobs, job_queue, completed_jobs, item_state, results, disp_pc,
                   disp_job, cancelled, evicted, now>>
    /\ UNCHANGED setup_vars
    /\ UNCHANGED file_vars
    /\ UNCHANGED shutdown_vars
    /\ UNCHANGED callback_log
    /\ UNCHANGED client_vars
    /\ UNCHANGED direct_vars

\* Mutant of CompletedRecord: failed counts the successes once more.
CompletedRecordMiscount(j, rs) ==
    [job_id |-> j,
     results |-> rs,
     completed_at |-> now,
     total_items |-> Len(jobs[j].items),
     successful |-> CountSuccess(rs, TRUE),
     failed |-> CountSuccess(rs, TRUE)]

\* Lines 126-133: the completed record of job j.
CompletedRecord(j, rs) ==
    [job_id |-> j,
     results |-> rs,
     completed_at |-> now,
     total_items |-> Len(jobs[j].items),
     successful |-> CountSuccess(rs, TRUE),
     failed |-> CountSuccess(rs, FALSE)]

\* Mutant of FailureRecord: the entry carries an empty result list and the
\* counts of a completed record.
FailureRecordWithCounts(j, msg) ==
    [job_id |-> j, error |-> msg, completed_at |-> now, failed |-> TRUE,
     results |-> <<>>, total_items |-> Len(jobs[j].items), successful |-> 0]

\* Lines 141-146: the job-level failure entry of job j.
FailureRecord(j, msg) ==
    [job_id |-> j, error |-> msg, completed_at |-> now, failed |-> TRUE]

\* Mutant of StoreCompleted: the record is stored under another key.
StoreUnderWrongKey(j, rec) == (0 :> rec) @@ completed_jobs

\* self.completed_jobs[job.job_id] = record
StoreCompleted(j, rec) == (j :> rec) @@ completed_jobs

\* Items of job j in the given state.
ItemsIn(j, st) == {i \in DOMAIN item_state[j] : item_state[j][i] = st}

\* Lines 272-273: the batch's pool (max_workers threads) starts the next
\* submitted process_item call.
item_start(j) ==
    /\ wpc[j] = "batch"
    /\ ItemsIn(j, "pending") # {}
    /\ Cardinality(ItemsIn(j, "running")) < max_workers
    /\ LET i == CHOOSE i \in ItemsIn(j, "pending") :
                    \A k \in ItemsIn(j, "pending") : i <= k
       IN  item_state' = [item_state EXCEPT ![j][i] = "running"]
    /\ UNCHANGED <<jobs, job_queue, active_jobs, completed_jobs, executor_queue,
                   wpc, results, disp_pc, disp_job, cancelled, evicted, now>>
    /\ UNCHANGED setup_vars
    /\ UNCHANGED file_vars
    /\ UNCHANGED shutdown_vars
    /\ UNCHANGED callback_log
    /\ UNCHANGED client_vars
    /\ UNCHANGED direct_vars

\* Mutant of CollectResult: a failed result is not collected.
CollectSuccessOnly(rs, r) == IF r.success THEN Append(rs, r) ELSE rs

\* Lines 275-278: as_completed yields the future and its result is appended.
CollectResult(rs, r) == Append(rs, r)

\* Mutant of item_finish: the exception of a failing item is not caught by
\* process_item, leaves _process_batch_sync and ends the job in the except
\* branch of job_wrapper.
item_finish_raising(j, i) ==
    LET r == process_item(config, jobs[j].items[i])
    IN  /\ wpc[j] = "batch"
        /\ item_state[j][i] = "running"
        /\ item_state' = [item_state EXCEPT ![j][i] = "done"]
        /\ IF r.success
           THEN /\ results' = [results EXCEPT ![j] = Append(@, r)]
                /\ UNCHANGED <<completed_jobs, wpc>>
           ELSE /\ completed_jobs' =
                      (j :> [job_id |-> j, error |-> CHOOSE m \in r.error_message : TRUE,
                             completed_at |-> now, failed |-> TRUE]) @@ completed_jobs
                /\ wpc' = [wpc EXCEPT ![j] = "finally"]
                /\ UNCHANGED results
        /\ UNCHANGED <<jobs, job_queue, active_jobs, executor_queue,
                       disp_pc, disp_job, cancelled, evicted, now>>
        /\ UNCHANGED setup_vars
        /\ UNCHANGED file_vars
        /\ UNCHANGED shutdown_vars
        /\ UNCHANGED callback_log
        /\ UNCHANGED client_vars
        /\ UNCHANGED direct_vars

\* Lines 240-269 and 275-278: item i of job j finishes and the wrapper's
\* as_completed loop collects its result.
item_finish(j, i) ==
    /\ wpc[j] = "batch"
    /\ item_state[j][i] = "running"
    /\ item_state' = [item_state EXCEPT ![j][i] = "done"]
    /\ results' = [results EXCEPT
                     ![j] = CollectResult(@, process_item(config, jobs[j].items[i]))]
    /\ UNCHANGED <<jobs, job_queue, active_jobs, completed_jobs, executor_queue,
                   wpc, disp_pc, disp_job, cancelled, evicted, now>>
    /\ UNCHANGED setup_vars
    /\ UNCHANGED file_vars
    /\ UNCHANGED shutdown_vars
    /\ UNCHANGED callback_log
    /\ UNCHANGED client_vars
    /\ UNCHANGED direct_vars

\* Mutant of job_wrapper_store: the notifier is called whether or not the
\* job has a callback_url.
job_wrapper_store_always_calling(j) ==
    /\ wpc[j] = "batch"
    /\ \A i \in DOMAIN item_state[j] : item_state[j][i] = "done"
    /\ completed_jobs' = StoreCompleted(j, CompletedRecord(j, results[j]))
    /\ wpc' = [wpc EXCEPT ![j] = "callback"]
    /\ UNCHANGED <<jobs, job_queue, active_jobs, executor_queue, item_state,
                   results, disp_pc, disp_job, cancelled, evicted, now>>
    /\ UNCHANGED setup_vars
    /\ UNCHANGED file_vars
    /\ UNCHANGED shutdown_vars
    /\ UNCHANGED callback_log
    /\ UNCHANGED client_vars
    /\ UNCHANGED direct_vars

\* Lines 123-136: _process_batch_sync has returned (every future was
\* collected); the completed record is stored and callback_url is tested.
job_wrapper_store(j) ==
    /\ wpc[j] = "batch"
    /\ \A i \in DOMAIN item_state[j] : item_state[j][i] = "done"
    /\ completed_jobs' = StoreCompleted(j, CompletedRecord(j, results[j]))
    /\ wpc' = [wpc EXCEPT
                 ![j] = IF jobs[j].callback_url # None THEN "callback" ELSE "finally"]
    /\ UNCHANGED <<jobs, job_queue, active_jobs, executor_queue, item_state,
                   results, disp_pc, disp_job, cancelled, evicted, now>>
    /\ UNCHANGED setup_vars
    /\ UNCHANGED file_vars
    /\ UNCHANGED shutdown_vars
    /\ UNCHANGED callback_log
    /\ UNCHANGED client_vars
    /\ UNCHANGED direct_vars

\* Mutant of job_wrapper_callback: a failed delivery is raised to the
\* wrapper and ends in its except branch.
job_wrapper_callback_raising(j, delivered) ==
    /\ wpc[j] = "callback"
    /\ IF j \in DOMAIN completed_jobs
       THEN /\ callback_log' = Append(callback_log,
                                      [job_id |-> j, payload |-> completed_jobs[j],
                                       delivered |-> delivered])
            /\ wpc' = [wpc EXCEPT ![j] = IF delivered THEN "finally" ELSE "except"]
       ELSE /\ wpc' = [wpc EXCEPT ![j] = "except_lookup"]
            /\ UNCHANGED callback_log
    /\ UNCHANGED <<jobs, job_queue, active_jobs, completed_jobs, executor_queue,
                   item_state, results, disp_pc, disp_job, cancelled, evicted, now>>
    /\ UNCHANGED setup_vars
    /\ UNCHANGED file_vars
    /\ UNCHANGED shutdown_vars
    /\ UNCHANGED client_vars
    /\ UNCHANGED direct_vars

\* Lines 137 and 350-364: the record is looked up in the completed map and
\* _send_callback posts it once; delivered is FALSE when the post (or the
\* import of requests) raises, which line 363 catches: nothing is raised
\* and no state of the processor changes. A record that is no longer in
\* the map makes the lookup raise KeyError into the except branch.
job_wrapper_callback(j, delivered) ==
    /\ wpc[j] = "callback"
    /\ IF j \in DOMAIN completed_jobs
       THEN /\ callback_log' = Append(callback_log,
                                      [job_id |-> j, payload |-> completed_jobs[j],
                                       delivered |-> delivered])
            /\ wpc' = [wpc EXCEPT ![j] = "finally"]
       ELSE /\ wpc' = [wpc EXCEPT ![j] = "except_lookup"]
            /\ UNCHANGED callback_log
    /\ UNCHANGED <<jobs, job_queue, active_jobs, completed_jobs, executor_queue,
                   item_state, results, disp_pc, disp_job, cancelled, evicted, now>>
    /\ UNCHANGED setup_vars
    /\ UNCHANGED file_vars
    /\ UNCHANGED shutdown_vars
    /\ UNCHANGED client_vars
    /\ UNCHANGED direct_vars

\* Lines 139-146: the except branch stores the job-level failure entry.
job_wrapper_except(j) ==
    /\ wpc[j] \in {"except", "except_lookup"}
    /\ completed_jobs' =
          StoreCompleted(j, FailureRecord(j, IF wpc[j] = "except"
                                             THEN "can't start new thread"
                                             ELSE "KeyError"))
    /\ wpc' = [wpc EXCEPT ![j] = "finally"]
    /\ UNCHANGED <<jobs, job_queue, active_jobs, executor_queue, item_state,
                   results, disp_pc, disp_job, cancelled, evicted, now>>
    /\ UNCHANGED setup_vars
    /\ UNCHANGED file_vars
    /\ UNCHANGED shutdown_vars
    /\ UNCHANGED callback_log
    /\ UNCHANGED client_vars
    /\ UNCHANGED direct_vars

\* Lines 147-149: self.active_jobs.pop(job.job_id, None); the thread is free.
job_wrapper_finally(j) ==
    /\ wpc[j] = "finally"
    /\ active_jobs' = active_jobs \ {j}
    /\ wpc' = [wpc EXCEPT ![j] = "done"]
    /\ UNCHANGED <<jobs, job_queue, completed_jobs, executor_queue, item_state,
                   results, disp_pc, disp_job, cancelled, evicted, now>>
    /\ UNCHANGED setup_vars
    /\ UNCHANGED file_vars
    /\ UNCHANGED shutdown_vars
    /\ UNCHANGED callback_log
    /\ UNCHANGED client_vars
    /\ UNCHANGED direct_vars

\* -------------------------------------------------------------- cancel_job
\* Mutant of cancel_job: the wrapper of the cancelled job is stopped.
cancel_job_stopping(job_id) ==
    /\ IF job_id \in active_jobs
       THEN /\ active_jobs' = active_jobs \ {job_id}
            /\ cancelled' = cancelled \cup {job_id}
            /\ last_cancel' = Some([job_id |-> job_id, returned |-> TRUE])
            /\ wpc' = [wpc EXCEPT ![job_id] = "done"]
       ELSE /\ last_cancel' = Some([job_id |-> job_id, returned |-> FALSE])
            /\ UNCHANGED <<active_jobs, cancelled, wpc>>
    /\ UNCHANGED <<jobs, job_queue, completed_jobs, executor_queue, item_state,
                   results, disp_pc, disp_job, evicted, now>>
    /\ UNCHANGED setup_vars
    /\ UNCHANGED file_vars
    /\ UNCHANGED shutdown_vars
    /\ UNCHANGED callback_log
    /\ UNCHANGED status_vars
    /\ UNCHANGED direct_vars

\* Mutant of cancel_job: a queued job is taken out of the queue.
cancel_job_queued(job_id) ==
    /\ IF job_id \in active_jobs
       THEN /\ active_jobs' = active_jobs \ {job_id}
            /\ cancelled' = cancelled \cup {job_id}
            /\ last_cancel' = Some([job_id |-> job_id, returned |-> TRUE])
            /\ UNCHANGED job_queue
       ELSE IF job_id \in Range(job_queue)
       THEN /\ job_queue' = SelectSeq(job_queue, LAMBDA k : k # job_id)
            /\ cancelled' = cancelled \cup {job_id}
            /\ last_cancel' = Some([job_id |-> job_id, returned |-> TRUE])
            /\ UNCHANGED active_jobs
       ELSE /\ last_cancel' = Some([job_id |-> job_id, returned |-> FALSE])
            /\ UNCHANGED <<active_jobs, cancelled, job_queue>>
    /\ UNCHANGED <<jobs, completed_jobs, executor_queue, wpc, item_state,
                   results, disp_pc, disp_job, evicted, now>>
    /\ UNCHANGED setup_vars
    /\ UNCHANGED file_vars
    /\ UNCHANGED shutdown_vars
    /\ UNCHANGED callback_log
    /\ UNCHANGED status_vars
    /\ UNCHANGED direct_vars

\* Lines 338-348: pops the job from the active map when it is there and
\* returns True, returns False otherwise.
cancel_job(job_id) ==
    /\ IF job_id \in active_jobs
       THEN /\ active_jobs' = active_jobs \ {job_id}
            /\ cancelled' = cancelled \cup {job_id}
            /\ last_cancel' = Some([job_id |-> job_id, returned |-> TRUE])
       ELSE /\ last_cancel' = Some([job_id |-> job_id, returned |-> FALSE])
            /\ UNCHANGED <<active_jobs, cancelled>>
    /\ UNCHANGED <<jobs, job_queue, completed_jobs, executor_queue, wpc, item_state,
                   results, disp_pc, disp_job, evicted, now>>
    /\ UNCHANGED setup_vars
    /\ UNCHANGED file_vars
    /\ UNCHANGED shutdown_vars
    /\ UNCHANGED callback_log
    /\ UNCHANGED status_vars
    /\ UNCHANGED direct_vars

\* ------------------------------------------------------------------ shutdown
\* Line 398: self.shutdown_event.set()
shutdown_signal ==
    /\ shut_pc = "idle"
    /\ shutdown_event' = TRUE
    /\ shut_pc' = "join"
    /\ UNCHANGED executor_down
    /\ UNCHANGED <<executor_queue, now, callback_log>>
    /\ UNCHANGED registry_vars
    /\ UNCHANGED setup_vars
    /\ UNCHANGED file_vars
    /\ UNCHANGED client_vars
    /\ UNCHANGED direct_vars

\* Lines 401-402: self.processing_thread.join(timeout=5) returns when the
\* dispatcher thread has ended, or after five seconds whatever the thread
\* is doing (timed_out); its result is not looked at.
shutdown_join(timed_out) ==
    /\ shut_pc = "join"
    /\ timed_out \/ disp_pc \in {"stopped", "dead"}
    /\ shut_pc' = "pool"
    /\ UNCHANGED <<shutdown_event, executor_down>>
    /\ UNCHANGED <<executor_queue, now, callback_log>>
    /\ UNCHANGED registry_vars
    /\ UNCHANGED setup_vars
    /\ UNCHANGED file_vars
    /\ UNCHANGED client_vars
    /\ UNCHANGED direct_vars

\* Line 405: self.executor.shutdown(wait=True) first marks the pool as shut
\* down, so that submit raises from then on.
shutdown_executor ==
    /\ shut_pc = "pool"
    /\ executor_down' = TRUE
    /\ shut_pc' = "wait"
    /\ UNCHANGED shutdown_event
    /\ UNCHANGED <<executor_queue, now, callback_log>>
    /\ UNCHANGED registry_vars
    /\ UNCHANGED setup_vars
    /\ UNCHANGED file_vars
    /\ UNCHANGED client_vars
    /\ UNCHANGED direct_vars

\* Lines 405-407: the pool's threads run the work that is still queued and
\* are joined without a timeout; then shutdown() returns.
shutdown_return ==
    /\ shut_pc = "wait"
    /\ executor_queue = <<>>
    /\ BusyWorkers = 0
    /\ shut_pc' = "returned"
    /\ UNCHANGED <<shutdown_event, executor_down>>
    /\ UNCHANGED <<executor_queue, now, callback_log>>
    /\ UNCHANGED registry_vars
    /\ UNCHANGED setup_vars
    /\ UNCHANGED file_vars
    /\ UNCHANGED client_vars
    /\ UNCHANGED direct_vars

\* ------------------------------------------------------------ get_job_status
\* Lines 310-336: the status field of the returned record.
get_job_status(job_id) ==
    IF job_id \in DOMAIN completed_jobs THEN "completed"
    ELSE IF job_id \in active_jobs THEN "processing"
    ELSE "queued"

\* The same call as the caller's thread runs it, a line at a time: the
\* dispatcher and the wrappers run between its membership tests and its
\* lookups. KeyError is what a lookup raises when the key is gone.
KeyError == [raised |-> "KeyError"]

\* Lines 314-318: {'status': 'completed', 'job_id': job_id, **record}; the
\* keys of the record come last and win.
CompletedStatus(job_id, rec) == rec @@ [status |-> "completed", job_id |-> job_id]

\* Lines 323-329, without created_at (see submit_job).
ProcessingStatus(job_id, job) ==
    [status |-> "processing", job_id |-> job_id,
     total_items |-> Len(job.items), user_id |-> job.user_id]

\* Mutant of QueuedStatus: a job in neither map is reported as not found.
NotFoundStatus(job_id) == [status |-> "not_found", job_id |-> job_id]

\* Lines 333-336.
QueuedStatus(job_id) == [status |-> "queued", job_id |-> job_id]

\* The statuses in the order of a job's life, and the record of the
\* furthest one a caller has been given for job_id.
StatusRank(status) ==
    CASE status = "queued" -> 1
      [] status = "processing" -> 2
      [] status = "completed" -> 3

Reported(job_id, status) ==
    [q_reported EXCEPT ![job_id] = IF StatusRank(status) > @
                                   THEN StatusRank(status) ELSE @]

\* Line 313: if job_id in self.completed_jobs
status_test_completed(job_id) ==
    /\ q_pc = "idle"
    /\ q_job' = job_id
    /\ q_result' = None
    /\ q_pc' = IF job_id \in DOMAIN completed_jobs
               THEN "read_completed" ELSE "test_active"
    /\ UNCHANGED <<last_cancel, q_reported, executor_queue, now>>
    /\ UNCHANGED registry_vars
    /\ UNCHANGED setup_vars
    /\ UNCHANGED file_vars
    /\ UNCHANGED shutdown_vars
    /\ UNCHANGED callback_log
    /\ UNCHANGED direct_vars

\* Lines 314-318: the lookup self.completed_jobs[job_id] and the return.
status_read_completed ==
    /\ q_pc = "read_completed"
    /\ q_result' = IF q_job \in DOMAIN completed_jobs
                   THEN Some(CompletedStatus(q_job, completed_jobs[q_job]))
                   ELSE Some(KeyError)
    /\ q_reported' = IF q_job \in DOMAIN completed_jobs
                     THEN Reported(q_job, "completed") ELSE q_reported
    /\ q_pc' = "idle"
    /\ UNCHANGED <<q_job, last_cancel, executor_queue, now>>
    /\ UNCHANGED registry_vars
    /\ UNCHANGED setup_vars
    /\ UNCHANGED file_vars
    /\ UNCHANGED shutdown_vars
    /\ UNCHANGED callback_log
    /\ UNCHANGED direct_vars

\* Line 321: if job_id in self.active_jobs; lines 333-336 when it is not.
status_test_active ==
    /\ q_pc = "test_active"
    /\ IF q_job \in active_jobs
       THEN /\ q_pc' = "read_active"
            /\ UNCHANGED <<q_result, q_reported>>
       ELSE /\ q_pc' = "idle"
            /\ q_result' = Some(QueuedStatus(q_job))
            /\ q_reported' = Reported(q_job, "queued")
    /\ UNCHANGED <<q_job, last_cancel, executor_queue, now>>
    /\ UNCHANGED registry_vars
    /\ UNCHANGED setup_vars
    /\ UNCHANGED file_vars
    /\ UNCHANGED shutdown_vars
    /\ UNCHANGED callback_log
    /\ UNCHANGED direct_vars

\* Lines 322-329: the lookup self.active_jobs[job_id] and the return.
status_read_active ==
    /\ q_pc = "read_active"
    /\ q_result' = IF q_job \in active_jobs
                   THEN Some(ProcessingStatus(q_job, jobs[q_job]))
                   ELSE Some(KeyError)
    /\ q_reported' = IF q_job \in active_jobs
                     THEN Reported(q_job, "processing") ELSE q_reported
    /\ q_pc' = "idle"
    /\ UNCHANGED <<q_job, last_cancel, executor_queue, now>>
    /\ UNCHANGED registry_vars
    /\ UNCHANGED setup_vars
    /\ UNCHANGED file_vars
    /\ UNCHANGED shutdown_vars
    /\ UNCHANGED callback_log
    /\ UNCHANGED direct_vars

\* -------------------------------------------------------------------- time
\* An hour passes. Time is read only through completed_at (line 373), so
\* the hours before the first record is stored are not counted.
Tick ==
    /\ now < MaxTime
    /\ DOMAIN completed_jobs # {}
    /\ now' = now + 1
    /\ UNCHANGED <<jobs, job_queue, active_jobs, completed_jobs, executor_queue,
                   wpc, item_state, results, disp_pc, disp_job, cancelled, evicted>>
    /\ UNCHANGED setup_vars
    /\ UNCHANGED file_vars
    /\ UNCHANGED shutdown_vars
    /\ UNCHANGED callback_log
    /\ UNCHANGED client_vars
    /\ UNCHANGED direct_vars


\* ------------------------------------------------------------ process_batch
\* Lines 158-170: the items "item_0", "item_1", ... and the semaphore.
DirectItems(prompts) ==
    [i \in DOMAIN prompts |-> [id |-> i - 1, prompt |-> prompts[i]]]

\* Mutant of process_batch: the call is entered in the active map, as a
\* dispatched job is.
process_batch_registered(prompts, max_concurrent) ==
    /\ d_pc = "idle"
    /\ d_pc' = "running"
    /\ d_items' = DirectItems(prompts)
    /\ d_state' = [i \in DOMAIN prompts |-> "wait"]
    /\ d_slots' = [i \in DOMAIN prompts |-> None]
    /\ d_sem' = max_concurrent
    /\ d_max_concurrent' = max_concurrent
    /\ active_jobs' = active_jobs \cup {0}
    /\ UNCHANGED <<d_return, executor_queue, now>>
    /\ UNCHANGED <<jobs, job_queue, completed_jobs, wpc, item_state,
                   results, disp_pc, disp_job, cancelled, evicted>>
    /\ UNCHANGED setup_vars
    /\ UNCHANGED file_vars
    /\ UNCHANGED shutdown_vars
    /\ UNCHANGED callback_log
    /\ UNCHANGED client_vars

\* Mutant of process_batch: the semaphore is given at least one unit.
process_batch_min_one(prompts, max_concurrent) ==
    /\ d_pc = "idle"
    /\ d_pc' = "running"
    /\ d_items' = DirectItems(prompts)
    /\ d_state' = [i \in DOMAIN prompts |-> "wait"]
    /\ d_slots' = [i \in DOMAIN prompts |-> None]
    /\ d_sem' = IF max_concurrent = 0 THEN 1 ELSE max_concurrent
    /\ d_max_concurrent' = max_concurrent
    /\ UNCHANGED <<d_return, executor_queue, now>>
    /\ UNCHANGED registry_vars
    /\ UNCHANGED setup_vars
    /\ UNCHANGED file_vars
    /\ UNCHANGED shutdown_vars
    /\ UNCHANGED callback_log
    /\ UNCHANGED client_vars

process_batch(prompts, max_concurrent) ==
    /\ d_pc = "idle"
    /\ d_pc' = "running"
    /\ d_items' = DirectItems(prompts)
    /\ d_state' = [i \in DOMAIN prompts |-> "wait"]
    /\ d_slots' = [i \in DOMAIN prompts |-> None]
    /\ d_sem' = max_concurrent
    /\ d_max_concurrent' = max_concurrent
    /\ UNCHANGED <<d_return, executor_queue, now>>
    /\ UNCHANGED registry_vars
    /\ UNCHANGED setup_vars
    /\ UNCHANGED file_vars
    /\ UNCHANGED shutdown_vars
    /\ UNCHANGED callback_log
    /\ UNCHANGED client_vars

\* Mutant of GatherStore: results are kept in the order the tasks finish.
GatherByCompletion(slots, i, r) ==
    LET k == CHOOSE k \in DOMAIN slots :
                 slots[k] = None /\ \A m \in DOMAIN slots : slots[m] = None => k <= m
    IN  [slots EXCEPT ![k] = Some(r)]

\* asyncio.gather (line 178): the result of task i goes to position i.
GatherStore(slots, i, r) == [slots EXCEPT ![i] = Some(r)]

\* Mutant of task_acquire: the task does not wait for the semaphore.
task_acquire_unbounded(i) ==
    /\ d_pc = "running"
    /\ d_state[i] = "wait"
    /\ \A k \in DOMAIN d_state : d_state[k] = "wait" => i <= k
    /\ LET v == validate_input(d_items[i].prompt)
       IN  IF v.raised
           THEN /\ d_slots' = GatherStore(d_slots, i, FailureResult(d_items[i].id, v.error))
                /\ d_state' = [d_state EXCEPT ![i] = "done"]
                /\ UNCHANGED <<d_sem, executor_queue>>
           ELSE /\ executor_queue' = Append(executor_queue, EnhanceWork(i))
                /\ d_state' = [d_state EXCEPT ![i] = "queued"]
                /\ d_sem' = d_sem - 1
                /\ UNCHANGED d_slots
    /\ UNCHANGED <<d_pc, d_items, d_return, now, d_max_concurrent>>
    /\ UNCHANGED registry_vars
    /\ UNCHANGED setup_vars
    /\ UNCHANGED file_vars
    /\ UNCHANGED shutdown_vars
    /\ UNCHANGED callback_log
    /\ UNCHANGED client_vars

\* Lines 172-174 and 197-211: the next task takes the semaphore and, without
\* leaving the event loop, validates its prompt. A ValidationError becomes
\* the failed result at once (lines 224-233) and the semaphore is released;
\* otherwise enhance_prompt is handed to self.executor.
task_acquire(i) ==
    /\ d_pc = "running"
    /\ d_state[i] = "wait"
    /\ \A k \in DOMAIN d_state : d_state[k] = "wait" => i <= k
    /\ d_sem > 0
    /\ LET v == validate_input(d_items[i].prompt)
       IN  IF v.raised
           THEN /\ d_slots' = GatherStore(d_slots, i, FailureResult(d_items[i].id, v.error))
                /\ d_state' = [d_state EXCEPT ![i] = "done"]
                /\ UNCHANGED <<d_sem, executor_queue>>
           ELSE /\ executor_queue' = Append(executor_queue, EnhanceWork(i))
                /\ d_state' = [d_state EXCEPT ![i] = "queued"]
                /\ d_sem' = d_sem - 1
                /\ UNCHANGED d_slots
    /\ UNCHANGED <<d_pc, d_items, d_return, now, d_max_concurrent>>
    /\ UNCHANGED registry_vars
    /\ UNCHANGED setup_vars
    /\ UNCHANGED file_vars
    /\ UNCHANGED shutdown_vars
    /\ UNCHANGED callback_log
    /\ UNCHANGED client_vars

\* Mutant of enhance_start: the call runs on a thread of its own, whatever
\* the pool is doing.
enhance_start_unpooled(i) ==
    /\ executor_queue # <<>>
    /\ Head(executor_queue) = EnhanceWork(i)
    /\ executor_queue' = Tail(executor_queue)
    /\ d_state' = [d_state EXCEPT ![i] = "enhancing"]
    /\ UNCHANGED <<d_pc, d_items, d_slots, d_sem, d_return, now, d_max_concurrent>>
    /\ UNCHANGED registry_vars
    /\ UNCHANGED setup_vars
    /\ UNCHANGED file_vars
    /\ UNCHANGED shutdown_vars
    /\ UNCHANGED callback_log
    /\ UNCHANGED client_vars

\* A free thread of self.executor takes the enhance_prompt call of task i.
enhance_start(i) ==
    /\ executor_queue # <<>>
    /\ Head(executor_queue) = EnhanceWork(i)
    /\ BusyWorkers < max_workers
    /\ executor_queue' = Tail(executor_queue)
    /\ d_state' = [d_state EXCEPT ![i] = "enhancing"]
    /\ UNCHANGED <<d_pc, d_items, d_slots, d_sem, d_return, now, d_max_concurrent>>
    /\ UNCHANGED registry_vars
    /\ UNCHANGED setup_vars
    /\ UNCHANGED file_vars
    /\ UNCHANGED shutdown_vars
    /\ UNCHANGED callback_log
    /\ UNCHANGED client_vars

\* Mutant of enhance_finish: the task does not give the semaphore back.
enhance_finish_keeping(i) ==
    /\ d_state[i] = "enhancing"
    /\ LET e == enhance_prompt(config, validate_input(d_items[i].prompt).value)
           r == IF e.raised THEN FailureResult(d_items[i].id, e.error)
                ELSE SuccessResult(d_items[i].id, e)
       IN  d_slots' = GatherStore(d_slots, i, r)
    /\ d_state' = [d_state EXCEPT ![i] = "done"]
    /\ d_sem' = d_sem
    /\ UNCHANGED <<d_pc, d_items, d_return, executor_queue, now, d_max_concurrent>>
    /\ UNCHANGED registry_vars
    /\ UNCHANGED setup_vars
    /\ UNCHANGED file_vars
    /\ UNCHANGED shutdown_vars
    /\ UNCHANGED callback_log
    /\ UNCHANGED client_vars

\* Lines 205-233: the call returns or raises, the task builds its result
\* and leaves the semaphore.
enhance_finish(i) ==
    /\ d_state[i] = "enhancing"
    /\ LET e == enhance_prompt(config, validate_input(d_items[i].prompt).value)
           r == IF e.raised THEN FailureResult(d_items[i].id, e.error)
                ELSE SuccessResult(d_items[i].id, e)
       IN  d_slots' = GatherStore(d_slots, i, r)
    /\ d_state' = [d_state EXCEPT ![i] = "done"]
    /\ d_sem' = d_sem + 1
    /\ UNCHANGED <<d_pc, d_items, d_return, executor_queue, now, d_max_concurrent>>
    /\ UNCHANGED registry_vars
    /\ UNCHANGED setup_vars
    /\ UNCHANGED file_vars
    /\ UNCHANGED shutdown_vars
    /\ UNCHANGED callback_log
    /\ UNCHANGED client_vars

\* Lines 178-193: gather has every result; none is an exception, so each is
\* appended to final_results as it stands.
process_batch_return ==
    /\ d_pc = "running"
    /\ \A i \in DOMAIN d_state : d_state[i] = "done"
    /\ d_return' = [i \in DOMAIN d_slots |-> CHOOSE r \in d_slots[i] : TRUE]
    /\ d_pc' = "returned"
    /\ UNCHANGED <<d_items, d_state, d_slots, d_sem, executor_queue, now, d_max_concurrent>>
    /\ UNCHANGED registry_vars
    /\ UNCHANGED setup_vars
    /\ UNCHANGED file_vars
    /\ UNCHANGED shutdown_vars
    /\ UNCHANGED callback_log
    /\ UNCHANGED client_vars

\* ------------------------------------------------------- BatchFileProcessor
\* The input files: at most n rows, each a prompt.
RowLists(n) == UNION {[1..k -> Prompts] : k \in 0..n}

\* Lines 503 and 438: the id of the item built for position j (from 0) of
\* the chunk at offset i. iterrows() yields the row's index label, which is
\* already its position in the file.
FileItemId(kind, i, j) ==
    IF kind = "json" THEN <<"item", i + j>> ELSE <<"row", i + (i + j)>>

\* Lines 515-525 and 453-460: the entry written for an input row and the
\* result at the same position of the list results.
OutputEntry(kind, original, result) ==
    IF kind = "json"
    THEN [original |-> original,
          enhanced_prompt |-> IF result.success THEN result.enhanced_prompt ELSE None,
          template_used |-> IF result.success THEN result.template_used ELSE None,
          success |-> result.success,
          error_message |-> result.error_message]
    ELSE [original_prompt |-> original,
          enhanced_prompt |-> IF result.success THEN result.enhanced_prompt ELSE None,
          template_used |-> IF result.success THEN result.template_used ELSE None,
          success |-> result.success,
          error_message |-> result.error_message]

\* Lines 476-489 and 421-432: the file is read and the loop over
\* range(0, total, batch_size) is entered; range raises ValueError for a
\* step of 0, which the function logs and raises again.
process_file(kind, data, batch_size) ==
    /\ f_pc = "idle"
    /\ f_kind' = kind
    /\ f_data' = data
    /\ f_batch_size' = batch_size
    /\ f_i' = 0
    /\ f_results' = <<>>
    /\ f_pc' = IF batch_size = 0 THEN "raised" ELSE "loop"
    /\ UNCHANGED <<f_items, f_state, f_batch, f_output>>
    /\ UNCHANGED <<executor_queue, now, callback_log>>
    /\ UNCHANGED registry_vars
    /\ UNCHANGED setup_vars
    /\ UNCHANGED shutdown_vars
    /\ UNCHANGED client_vars
    /\ UNCHANGED direct_vars

process_json_file(data, batch_size) == process_file("json", data, batch_size)

process_csv_file(data, batch_size) == process_file("csv", data, batch_size)

\* Lines 489-511 and 432-446: the next chunk data[i:i+batch_size] is cut
\* and its items are built; _process_batch_sync is entered with them.
file_chunk ==
    /\ f_pc = "loop"
    /\ f_batch_size > 0
    /\ f_i < Len(f_data)
    /\ LET last == IF f_i + f_batch_size < Len(f_data)
                   THEN f_i + f_batch_size ELSE Len(f_data)
           batch_data == SubSeq(f_data, f_i + 1, last)
       IN  /\ f_items' = [j \in DOMAIN batch_data |->
                            [id |-> FileItemId(f_kind, f_i, j - 1),
                             prompt |-> batch_data[j]]]
           /\ f_state' = [j \in DOMAIN batch_data |-> "pending"]
    /\ f_batch' = <<>>
    /\ f_pc' = "batch"
    /\ UNCHANGED <<f_kind, f_data, f_batch_size, f_i, f_results, f_output>>
    /\ UNCHANGED <<executor_queue, now, callback_log>>
    /\ UNCHANGED registry_vars
    /\ UNCHANGED setup_vars
    /\ UNCHANGED shutdown_vars
    /\ UNCHANGED client_vars
    /\ UNCHANGED direct_vars

\* Lines 272-273: the chunk's pool starts the next submitted process_item.
file_item_start ==
    /\ f_pc = "batch"
    /\ \E k \in DOMAIN f_state : f_state[k] = "pending"
    /\ Cardinality({k \in DOMAIN f_state : f_state[k] = "running"}) < max_workers
    /\ LET k == CHOOSE k \in DOMAIN f_state :
                    /\ f_state[k] = "pending"
                    /\ \A m \in DOMAIN f_state : f_state[m] = "pending" => k <= m
       IN  f_state' = [f_state EXCEPT ![k] = "running"]
    /\ UNCHANGED <<f_pc, f_kind, f_data, f_batch_size, f_i, f_items, f_batch,
                   f_results, f_output>>
    /\ UNCHANGED <<executor_queue, now, callback_log>>
    /\ UNCHANGED registry_vars
    /\ UNCHANGED setup_vars
    /\ UNCHANGED shutdown_vars
    /\ UNCHANGED client_vars
    /\ UNCHANGED direct_vars

\* Lines 240-269 and 275-278: item k of the chunk finishes and as_completed
\* yields it: its result is appended to the list _process_batch_sync returns.
file_item_finish(k) ==
    /\ f_pc = "batch"
    /\ f_state[k] = "running"
    /\ f_state' = [f_state EXCEPT ![k] = "done"]
    /\ f_batch' = CollectResult(f_batch, process_item(config, f_items[k]))
    /\ UNCHANGED <<f_pc, f_kind, f_data, f_batch_size, f_i, f_items, f_results,
                   f_output>>
    /\ UNCHANGED <<executor_queue, now, callback_log>>
    /\ UNCHANGED registry_vars
    /\ UNCHANGED setup_vars
    /\ UNCHANGED shutdown_vars
    /\ UNCHANGED client_vars
    /\ UNCHANGED direct_vars

\* Lines 514 and 449: results.extend(batch_results), and the loop goes on.
file_extend ==
    /\ f_pc = "batch"
    /\ \A k \in DOMAIN f_state : f_state[k] = "done"
    /\ f_results' = f_results \o f_batch
    /\ f_i' = f_i + f_batch_size
    /\ f_pc' = "loop"
    /\ UNCHANGED <<f_kind, f_data, f_batch_size, f_items, f_state, f_batch, f_output>>
    /\ UNCHANGED <<executor_queue, now, callback_log>>
    /\ UNCHANGED registry_vars
    /\ UNCHANGED setup_vars
    /\ UNCHANGED shutdown_vars
    /\ UNCHANGED client_vars
    /\ UNCHANGED direct_vars

\* Lines 518-538 and 451-467: after the loop (which has no pass at all for
\* a negative batch_size) entry i of the output is built from data[i] and
\* results[i], and the output is written.
file_write ==
    /\ f_pc = "loop"
    /\ f_batch_size < 0 \/ f_i >= Len(f_data)
    /\ f_output' = [i \in DOMAIN f_results |->
                      OutputEntry(f_kind, f_data[i], f_results[i])]
    /\ f_pc' = "done"
    /\ UNCHANGED <<f_kind, f_data, f_batch_size, f_i, f_items, f_state, f_batch,
                   f_results>>
    /\ UNCHANGED <<executor_queue, now, callback_log>>
    /\ UNCHANGED registry_vars
    /\ UNCHANGED setup_vars
    /\ UNCHANGED shutdown_vars
    /\ UNCHANGED client_vars
    /\ UNCHANGED direct_vars

\* ----------------------------------------------------------- specifications
\* The queued path: jobs are submitted, dispatched, run, cancelled, evicted.
\* Every job has one item, a prompt that validates, and no callback_url, so
\* line 137 is never reached, and the batch's pool starts its threads, so
\* neither is line 139; batches of several items, failing items, callbacks
\* and the except branch are run by SpecBatch.
Next ==
    \/ /\ Len(jobs) < MaxJobs
       /\ submit_job(ItemsOf(<< <<" ", "a">> >>), None, 0, None)
    \/ dispatcher_check
    \/ dispatcher_get
    \/ dispatcher_submit
    \/ dispatcher_cleanup
    \/ \E j \in JobIds : job_wrapper_start(j, TRUE)
    \/ \E j \in JobIds : item_start(j)
    \/ \E j \in JobIds : \E i \in DOMAIN item_state[j] : item_finish(j, i)
    \/ \E j \in JobIds : job_wrapper_store(j)
    \/ \E j \in JobIds : job_wrapper_finally(j)
    \/ \E j \in JobIds : cancel_job(j)
    \/ Tick

Init == InitWith({"default"})

Spec == Init /\ [][Next]_vars

\* One batch on either path: a single job taken through the dispatcher and
\* _process_batch_sync, or a single process_batch call.
NextBatch ==
    \/ \E p \in PromptLists(BatchItems), cb \in {None, Some("url")} :
          /\ jobs = <<>> /\ d_pc = "idle"
          /\ submit_job(ItemsOf(p), None, 0, cb)
    \/ dispatcher_check
    \/ dispatcher_get
    \/ dispatcher_submit
    \/ dispatcher_cleanup
    \/ \E j \in JobIds, thread_ok \in BOOLEAN : job_wrapper_start(j, thread_ok)
    \/ \E j \in JobIds : item_start(j)
    \/ \E j \in JobIds : \E i \in DOMAIN item_state[j] : item_finish(j, i)
    \/ \E j \in JobIds : job_wrapper_store(j)
    \/ \E j \in JobIds, delivered \in BOOLEAN : job_wrapper_callback(j, delivered)
    \/ \E j \in JobIds : job_wrapper_except(j)
    \/ \E j \in JobIds : job_wrapper_finally(j)
    \/ \E p \in PromptLists(BatchItems), mc \in 1..MaxConcurrent :
          /\ jobs = <<>>
          /\ process_batch(p, mc)
    \/ \E i \in DOMAIN d_state : task_acquire(i)
    \/ \E i \in DOMAIN d_state : enhance_start(i)
    \/ \E i \in DOMAIN d_state : enhance_finish(i)
    \/ process_batch_return

InitBatch == InitWith(Configs)

SpecBatch == InitBatch /\ [][NextBatch]_vars

\* Jobs of every priority are submitted, dispatched and run; nothing is
\* cancelled or evicted.
NextFifo ==
    \/ \E priority \in 0..MaxPriority :
          /\ Len(jobs) < MaxJobs
          /\ submit_job(ItemsOf(<< <<" ", "a">> >>), None, priority, None)
    \/ dispatcher_check
    \/ dispatcher_get
    \/ dispatcher_submit
    \/ dispatcher_cleanup
    \/ \E j \in JobIds : job_wrapper_start(j, TRUE)
    \/ \E j \in JobIds : item_start(j)
    \/ \E j \in JobIds : \E i \in DOMAIN item_state[j] : item_finish(j, i)
    \/ \E j \in JobIds : job_wrapper_store(j)
    \/ \E j \in JobIds : job_wrapper_finally(j)

SpecFifo == Init /\ [][NextFifo]_vars

\* One job of several items, some of them failing, that a caller cancels at
\* any moment.
NextCancel ==
    \/ \E p \in PromptLists(BatchItems), cb \in {None, Some("url")} :
          /\ jobs = <<>>
          /\ submit_job(ItemsOf(p), None, 0, cb)
    \/ dispatcher_check
    \/ dispatcher_get
    \/ dispatcher_submit
    \/ dispatcher_cleanup
    \/ \E j \in JobIds, thread_ok \in BOOLEAN : job_wrapper_start(j, thread_ok)
    \/ \E j \in JobIds : item_start(j)
    \/ \E j \in JobIds : \E i \in DOMAIN item_state[j] : item_finish(j, i)
    \/ \E j \in JobIds : job_wrapper_store(j)
    \/ \E j \in JobIds, delivered \in BOOLEAN : job_wrapper_callback(j, delivered)
    \/ \E j \in JobIds : job_wrapper_except(j)
    \/ \E j \in JobIds : job_wrapper_finally(j)
    \/ \E j \in JobIds : cancel_job(j)

SpecCancel == Init /\ [][NextCancel]_vars

\* A queued job and a process_batch call at the same time, on the one
\* self.executor.
NextShared ==
    \/ /\ jobs = <<>>
       /\ submit_job(ItemsOf(<< <<" ", "a">> >>), None, 0, None)
    \/ dispatcher_check
    \/ dispatcher_get
    \/ dispatcher_submit
    \/ dispatcher_cleanup
    \/ \E j \in JobIds : job_wrapper_start(j, TRUE)
    \/ \E j \in JobIds : item_start(j)
    \/ \E j \in JobIds : \E i \in DOMAIN item_state[j] : item_finish(j, i)
    \/ \E j \in JobIds : job_wrapper_store(j)
    \/ \E j \in JobIds : job_wrapper_finally(j)
    \/ \E p \in PromptLists(BatchItems), mc \in 1..MaxConcurrent :
          process_batch(p, mc)
    \/ \E i \in DOMAIN d_state : task_acquire(i)
    \/ \E i \in DOMAIN d_state : enhance_start(i)
    \/ \E i \in DOMAIN d_state : enhance_finish(i)
    \/ process_batch_return

SpecShared == Init /\ [][NextShared]_vars

\* Jobs of one item each and a process_batch call of MaxConcurrent prompts
\* compete for the threads of the one self.executor.
NextPool ==
    \/ /\ Len(jobs) < MaxJobs
       /\ submit_job(ItemsOf(<< <<" ", "a">> >>), None, 0, None)
    \/ dispatcher_check
    \/ dispatcher_get
    \/ dispatcher_submit
    \/ dispatcher_cleanup
    \/ \E j \in JobIds : job_wrapper_start(j, TRUE)
    \/ \E j \in JobIds : item_start(j)
    \/ \E j \in JobIds : \E i \in DOMAIN item_state[j] : item_finish(j, i)
    \/ \E j \in JobIds : job_wrapper_store(j)
    \/ \E j \in JobIds : job_wrapper_finally(j)
    \/ process_batch([k \in 1..MaxConcurrent |-> <<" ", "a">>], MaxConcurrent)
    \/ \E i \in DOMAIN d_state : task_acquire(i)
    \/ \E i \in DOMAIN d_state : enhance_start(i)
    \/ \E i \in DOMAIN d_state : enhance_finish(i)
    \/ process_batch_return

SpecPool == Init /\ [][NextPool]_vars

\* One process_batch call, for every max_concurrent from 0 on, with the
\* pool to itself.
NextDirect ==
    \/ \E p \in PromptLists(BatchItems), mc \in 0..MaxConcurrent :
          process_batch(p, mc)
    \/ \E i \in DOMAIN d_state : task_acquire(i)
    \/ \E i \in DOMAIN d_state : enhance_start(i)
    \/ \E i \in DOMAIN d_state : enhance_finish(i)
    \/ process_batch_return

SpecDirect == InitBatch /\ [][NextDirect]_vars

\* One call of process_json_file or process_csv_file on a file of prompts
\* that validate or not, for every batch_size.
NextFile ==
    \/ \E data \in RowLists(MaxRows), batch_size \in -1..MaxBatchSize :
          process_json_file(data, batch_size)
    \/ \E data \in RowLists(MaxRows), batch_size \in -1..MaxBatchSize :
          process_csv_file(data, batch_size)
    \/ file_chunk
    \/ file_item_start
    \/ \E k \in DOMAIN f_state : file_item_finish(k)
    \/ file_extend
    \/ file_write

SpecFile == Init /\ [][NextFile]_vars

\* Several jobs of two items each, dispatched and run side by side; the
\* pool of a job's batch may fail to start its threads.
NextJobs ==
    \/ /\ Len(jobs) < MaxJobs
       /\ submit_job(ItemsOf(<< <<" ", "a">>, <<" ", "a">> >>), None, 0, None)
    \/ dispatcher_check
    \/ dispatcher_get
    \/ dispatcher_submit
    \/ dispatcher_cleanup
    \/ \E j \in JobIds, thread_ok \in BOOLEAN : job_wrapper_start(j, thread_ok)
    \/ \E j \in JobIds : item_start(j)
    \/ \E j \in JobIds : \E i \in DOMAIN item_state[j] : item_finish(j, i)
    \/ \E j \in JobIds : job_wrapper_store(j)
    \/ \E j \in JobIds : job_wrapper_except(j)
    \/ \E j \in JobIds : job_wrapper_finally(j)

SpecJobs == Init /\ [][NextJobs]_vars

\* Jobs of one item are submitted, dispatched and run while shutdown() is
\* called at any moment; jobs are submitted after it as well.
NextShutdown ==
    \/ /\ Len(jobs) < MaxJobs
       /\ submit_job(ItemsOf(<< <<" ", "a">> >>), None, 0, None)
    \/ dispatcher_check
    \/ dispatcher_get
    \/ dispatcher_submit
    \/ dispatcher_cleanup
    \/ \E j \in JobIds, thread_ok \in BOOLEAN : job_wrapper_start(j, thread_ok)
    \/ \E j \in JobIds : item_start(j)
    \/ \E j \in JobIds : \E i \in DOMAIN item_state[j] : item_finish(j, i)
    \/ \E j \in JobIds : job_wrapper_store(j)
    \/ \E j \in JobIds : job_wrapper_except(j)
    \/ \E j \in JobIds : job_wrapper_finally(j)
    \/ shutdown_signal
    \/ \E timed_out \in BOOLEAN : shutdown_join(timed_out)
    \/ shutdown_executor
    \/ shutdown_return

SpecShutdown == Init /\ [][NextShutdown]_vars

\* The steps of the dispatcher thread and of the wrapper of job j with the
\* items of its batch.
Dispatcher == dispatcher_check \/ dispatcher_get \/ dispatcher_submit \/ dispatcher_cleanup

Wrapper(j) ==
    /\ j \in JobIds
    /\ \/ job_wrapper_start(j, TRUE)
       \/ item_start(j)
       \/ \E i \in DOMAIN item_state[j] : item_finish(j, i)
       \/ job_wrapper_store(j)
       \/ job_wrapper_finally(j)

\* Fair scheduling: the dispatcher thread (daemon thread of lines 92-97, no
\* shutdown) and every thread of the pools keep running, and processing an
\* item terminates.
Fairness == WF_vars(Dispatcher) /\ \A j \in 1..MaxJobs : WF_vars(Wrapper(j))

SpecLive == Init /\ [][Next]_vars /\ Fairness

\* The steps of a process_batch call: its tasks on the event loop and its
\* enhance_prompt calls on self.executor.
DirectStep ==
    \/ \E i \in DOMAIN d_state : task_acquire(i) \/ enhance_start(i) \/ enhance_finish(i)
    \/ process_batch_return

\* Fair scheduling of the event loop and of the pool threads; validation and
\* enhancement calls terminate.
SpecSharedLive ==
    /\ Init /\ [][NextShared]_vars
    /\ WF_vars(DirectStep)
    /\ \A j \in 1..MaxJobs : WF_vars(Wrapper(j))

\* One job and a caller polling its status: get_job_status runs a line at
\* a time against the dispatcher, the job's wrapper, cancel_job and
\* cleanup. Job id 0 is an id submit_job never returned.
NextStatus ==
    \/ /\ jobs = <<>>
       /\ submit_job(ItemsOf(<< <<" ", "a">> >>), None, 0, None)
    \/ dispatcher_check
    \/ dispatcher_get
    \/ dispatcher_submit
    \/ dispatcher_cleanup
    \/ \E j \in JobIds, thread_ok \in BOOLEAN : job_wrapper_start(j, thread_ok)
    \/ \E j \in JobIds : item_start(j)
    \/ \E j \in JobIds : \E i \in DOMAIN item_state[j] : item_finish(j, i)
    \/ \E j \in JobIds : job_wrapper_store(j)
    \/ \E j \in JobIds : job_wrapper_except(j)
    \/ \E j \in JobIds : job_wrapper_finally(j)
    \/ \E j \in JobIds : cancel_job(j)
    \/ Tick
    \/ \E job_id \in {0} \cup JobIds : status_test_completed(job_id)
    \/ status_read_completed
    \/ status_test_active
    \/ status_read_active

SpecStatus == Init /\ [][NextStatus]_vars

\* ------------------------------------------------------------------ claims
IsCompletedRecord(rec) == "results" \in DOMAIN rec
IsFailureRecord(rec) == "error" \in DOMAIN rec

\* C1 (as claimed): in every reachable state at most max_concurrent_batches
\* jobs are in the active map. The dispatcher tests the size of the active
\* map, but a dequeued job enters the map only when its wrapper starts, so
\* a second job is dequeued while the first is still on the pool's queue.
C1_ActiveWithinLimit ==
    /\ Cardinality(active_jobs) <= max_concurrent_batches
    /\ (max_concurrent_batches = 1 /\ Len(jobs) >= 2
            /\ get_job_status(1) = "processing")
          => get_job_status(2) # "processing"

\* C2 (as claimed): the results of a job's completed record are in the order
\* of the job's items: results[i].id = items[i].id. The record holds them in
\* the order as_completed yielded them.
C2_QueuedResultsInOrder ==
    \A j \in DOMAIN completed_jobs :
        IsCompletedRecord(completed_jobs[j]) =>
            \A i \in DOMAIN completed_jobs[j].results :
                completed_jobs[j].results[i].id = jobs[j].items[i].id

\* C3: the list process_batch returns has the result of prompts[i] at
\* position i: its id is "item_i" (positions count from 1 here, ids from 0).
C3_DirectResultsInOrder ==
    d_pc = "returned" =>
        /\ Len(d_return) = Len(d_items)
        /\ \A i \in DOMAIN d_return : d_return[i].id = i - 1

\* C3 witness: a call of three prompts has returned, a failed item between
\* two successful ones.
C3_Witness ==
    /\ d_pc = "returned"
    /\ Len(d_return) = 3
    /\ d_return[1].success /\ ~d_return[2].success /\ d_return[3].success

\* Exactly one result for each item id, and as many results as items.
OnePerItem(rs, items) ==
    /\ Len(rs) = Len(items)
    /\ \A i \in DOMAIN items :
          Cardinality({k \in DOMAIN rs : rs[k].id = items[i].id}) = 1

\* C4: both process_batch and _process_batch_sync return exactly one
\* BatchResult for each item of the batch, whether items succeed or fail.
C4_OneResultPerItem ==
    /\ d_pc = "returned" => OnePerItem(d_return, d_items)
    /\ \A j \in DOMAIN completed_jobs :
          IsCompletedRecord(completed_jobs[j]) =>
              OnePerItem(completed_jobs[j].results, jobs[j].items)

\* C4 witness: _process_batch_sync returned three results of which one failed.
C4_Witness ==
    \E j \in DOMAIN completed_jobs :
        /\ IsCompletedRecord(completed_jobs[j])
        /\ completed_jobs[j].total_items = 3
        /\ \E k \in DOMAIN completed_jobs[j].results :
              ~completed_jobs[j].results[k].success
        /\ \E k \in DOMAIN completed_jobs[j].results :
              completed_jobs[j].results[k].success

\* C5: a failing item yields a failed result for that item only. No item's
\* exception ends the job (a job-level failure entry comes from the pool
\* alone), and every item of a batch has the result it has when processed
\* on its own, on both paths.
C5_ItemFailureIsolated ==
    /\ \A j \in DOMAIN completed_jobs :
          LET rec == completed_jobs[j]
          IN  /\ IsFailureRecord(rec) => rec.error = "can't start new thread"
              /\ IsCompletedRecord(rec) =>
                    \A i \in DOMAIN jobs[j].items :
                        process_item(config, jobs[j].items[i]) \in Range(rec.results)
    /\ d_pc = "returned" =>
          \A i \in DOMAIN d_items :
              process_item(config, d_items[i]) \in Range(d_return)

\* C5 witness: the batch [ok, empty, ok] completed as success, failure,
\* success.
C5_Witness ==
    \E j \in DOMAIN completed_jobs :
        /\ IsCompletedRecord(completed_jobs[j])
        /\ Len(jobs[j].items) = 3
        /\ \A k \in DOMAIN completed_jobs[j].results :
              completed_jobs[j].results[k].success
                  <=> (completed_jobs[j].results[k].id \in {1, 3})

\* A BatchResult has exactly one of enhanced_prompt and error_message, as
\* success says.
WellFormedResult(r) ==
    /\ r.success <=> (r.enhanced_prompt # None /\ r.template_used # None
                       /\ r.error_message = None)
    /\ ~r.success <=> (r.error_message # None /\ r.enhanced_prompt = None)

\* C6: every BatchResult produced by either path has enhanced_prompt and
\* template_used set and error_message unset when success is true, and
\* error_message set and enhanced_prompt unset when it is false.
C6_ResultShape ==
    /\ \A j \in JobIds : \A k \in DOMAIN results[j] : WellFormedResult(results[j][k])
    /\ \A i \in DOMAIN d_slots : \A r \in d_slots[i] : WellFormedResult(r)
    /\ \A i \in DOMAIN d_return : WellFormedResult(d_return[i])

\* C6 witness: process_batch returned a successful and a failed result.
C6_Witness ==
    /\ d_pc = "returned"
    /\ \E i \in DOMAIN d_return : d_return[i].success
    /\ \E i \in DOMAIN d_return : ~d_return[i].success

\* C7 (as claimed): every record of the completed map has successful +
\* failed = total_items, total_items being the number of items submitted. A
\* job-level failure entry has no such counts.
C7_EveryRecordCounts ==
    \A j \in DOMAIN completed_jobs :
        LET rec == completed_jobs[j]
        IN  /\ {"total_items", "successful", "failed"} \subseteq DOMAIN rec
            /\ rec.successful + rec.failed = rec.total_items
            /\ rec.total_items = Len(jobs[j].items)

\* C7 (amended): every completed record (not a job-level failure entry) of
\* the completed map has successful + failed = total_items, total_items
\* being the number of items the job was submitted with.
C7_CompletedRecordCounts ==
    \A j \in DOMAIN completed_jobs :
        LET rec == completed_jobs[j]
        IN  IsCompletedRecord(rec) =>
                /\ rec.successful + rec.failed = rec.total_items
                /\ rec.total_items = Len(jobs[j].items)

\* C7 witness: a completed record counting successes and failures.
C7_Witness ==
    \E j \in DOMAIN completed_jobs :
        /\ IsCompletedRecord(completed_jobs[j])
        /\ completed_jobs[j].successful >= 1
        /\ completed_jobs[j].failed >= 1

InQueue(j) == j \in Range(job_queue)

\* C8 (as claimed): each job_id is in at most one of the job queue, the
\* active map and the completed map. The wrapper stores the record before
\* its finally clause pops the job from the active map.
C8_AtMostOnePlace ==
    \A j \in JobIds :
        Cardinality({p \in {"queue", "active", "completed"} :
                        \/ p = "queue" /\ InQueue(j)
                        \/ p = "active" /\ j \in active_jobs
                        \/ p = "completed" /\ j \in DOMAIN completed_jobs}) <= 1

\* Jobs whose wrapper has run line 122 (the insertion into the active map).
InsertedActive ==
    {j \in JobIds :
        wpc[j] \in {"batch", "except", "except_lookup", "callback", "finally", "done"}}

\* C9: from its insertion into the active map until cleanup evicts its
\* record, an uncancelled job is never in neither the active nor the
\* completed map.
C9_NoGapBetweenMaps ==
    \A j \in InsertedActive \ (cancelled \cup evicted) :
        j \in active_jobs \/ j \in DOMAIN completed_jobs

\* C9 witness: an uncancelled job has finished: it left the active map and
\* its record is in the completed map.
C9_Witness ==
    \E j \in JobIds \ cancelled :
        /\ wpc[j] = "done"
        /\ j \notin active_jobs
        /\ j \in DOMAIN completed_jobs

\* C10 (as claimed): a submitted job that was neither cancelled nor evicted
\* is never absent from the queue, the active map and the completed map at
\* once. The dispatcher dequeues it and hands it to the pool; it enters the
\* active map only when a pool thread starts its wrapper.
C10_NeverUntracked ==
    \A j \in JobIds \ (cancelled \cup evicted) :
        InQueue(j) \/ j \in active_jobs \/ j \in DOMAIN completed_jobs

\* C11 (as claimed): a get_job_status call for a job_id returned by
\* submit_job never fails and returns a record whose status is queued,
\* processing or completed. The call tests membership and then looks the
\* key up; the wrapper's finally clause, cancel_job or cleanup removes the
\* key in between and the lookup raises KeyError.
C11_StatusNeverFails ==
    \A r \in q_result :
        q_job \in JobIds =>
            /\ r # KeyError
            /\ r.status \in {"queued", "processing", "completed"}


\* C12: get_job_status returns the completed record when job_id is in the
\* completed map, whether or not it is in the active map too; otherwise the
\* processing summary (total_items and user_id of the job; its created_at
\* is not modelled) when it is in the active map; otherwise the queued
\* placeholder, which is also what an id never submitted gets; and no step
\* of the call changes the queue, the active map or the completed map. (A
\* lookup that raises is C11's case.)
C12_StatusPrecedence ==
    [][/\ UNCHANGED status_vars
          \/ UNCHANGED <<job_queue, active_jobs, completed_jobs, jobs>>
       /\ (q_pc = "idle" /\ q_pc' # "idle") =>
             (q_pc' = "read_completed" <=> q_job' \in DOMAIN completed_jobs)
       /\ (q_pc = "test_active" /\ q_pc' = "read_active") => q_job \in active_jobs
       /\ \A r \in q_result' :
             (q_result = None /\ r # [raised |-> "KeyError"]) =>
                 /\ r.job_id = q_job
                 /\ q_pc = "read_completed" =>
                       /\ r.status = "completed"
                       /\ \A f \in DOMAIN completed_jobs[q_job] \ {"job_id"} :
                             r[f] = completed_jobs[q_job][f]
                 /\ q_pc = "read_active" =>
                       r = [status |-> "processing", job_id |-> q_job,
                            total_items |-> Len(jobs[q_job].items),
                            user_id |-> jobs[q_job].user_id]
                 /\ q_pc = "test_active" =>
                       /\ q_job \notin active_jobs
                       /\ r = [status |-> "queued", job_id |-> q_job]
                 /\ q_job \notin JobIds => r.status = "queued"]_vars

\* C12 witness: a call made while the job was in both maps returned its
\* completed record.
C12_Witness ==
    /\ q_pc = "idle"
    /\ q_job \in active_jobs
    /\ q_job \in DOMAIN completed_jobs
    /\ \E r \in q_result :
          /\ r # KeyError
          /\ r.status = "completed"
          /\ IsCompletedRecord(r)
          /\ r.results = completed_jobs[q_job].results


\* A job the dispatcher has taken from the queue.
Dequeued(j) == j \in JobIds /\ ~InQueue(j)

\* Steps never move a job backwards: it does not return to the queue once
\* dequeued, nor enter the active map once it has a record.
NeverBackwards ==
    \A j \in JobIds :
        /\ Dequeued(j) => j \notin Range(job_queue')
        /\ j \in DOMAIN completed_jobs => (j \in active_jobs' => j \in active_jobs)

\* A job enters the active map only after it was dequeued.
ActiveOnlyDequeued ==
    \A j \in JobIds : (j \in active_jobs' /\ j \notin active_jobs) => Dequeued(j)

\* C13 (as claimed): the only path of a job is queue, active map, completed
\* map: it enters the active map only after it was dequeued, enters the
\* completed map only while it is in the active map, and never moves
\* backwards. The wrapper of a job that cancel_job popped from the active
\* map runs on and stores its record, so the job enters the completed map
\* from outside the active map.
C13_LifecycleOrder ==
    [][/\ ActiveOnlyDequeued
       /\ \A j \in JobIds :
             (j \in DOMAIN completed_jobs' /\ j \notin DOMAIN completed_jobs)
                 => j \in active_jobs
       /\ NeverBackwards]_vars


\* C14 (as claimed): under fair scheduling and without shutdown, every
\* submitted job is eventually dequeued and eventually has a record in the
\* completed map, however many jobs are queued ahead of it. A processor
\* built with max_concurrent_batches = 0 never finds the active map below
\* its limit and dequeues nothing.
C14_EveryJobCompletes ==
    \A j \in 1..MaxJobs :
        /\ InQueue(j) ~> Dequeued(j)
        /\ InQueue(j) ~> (j \in DOMAIN completed_jobs)

\* C14 (amended): under fair scheduling and without shutdown, when
\* max_concurrent_batches is at least 1, every submitted job is eventually
\* dequeued and eventually has a record in the completed map, however many
\* jobs are queued ahead of it.
C14_EveryJobCompletesPositiveLimit ==
    \A j \in 1..MaxJobs :
        /\ (max_concurrent_batches >= 1 /\ InQueue(j)) ~> Dequeued(j)
        /\ (max_concurrent_batches >= 1 /\ InQueue(j))
              ~> (j \in DOMAIN completed_jobs)

\* C14 witness: with one job at a time allowed, every job that can be
\* submitted was dequeued and has its record.
C14_Witness ==
    /\ max_concurrent_batches = 1
    /\ Len(jobs) = MaxJobs
    /\ \A j \in JobIds : Dequeued(j) /\ j \in DOMAIN completed_jobs


CancelReturns(j, b) == last_cancel' = Some([job_id |-> j, returned |-> b])

\* C16 (as claimed): cancel_job on a job that has a record in the completed
\* map returns False and leaves the record, the queue and the active map
\* unchanged. Between lines 126 and 149 the job has its record and is
\* still in the active map: cancel_job pops it there and returns True.
C16_CancelCompletedRefused ==
    [][\A j \in JobIds :
          (j \in DOMAIN completed_jobs /\ cancel_job(j)) =>
              /\ CancelReturns(j, FALSE)
              /\ UNCHANGED <<completed_jobs, job_queue, active_jobs>>]_vars


\* C17 (as claimed): once cancel_job has returned True for a job and
\* removed it from the active map, no get_job_status call reports the job
\* as processing or completed. The job's wrapper runs on and stores the
\* record (line 126), which get_job_status then returns.
C17_CancelledNeverReported ==
    \A j \in cancelled : get_job_status(j) \notin {"processing", "completed"}


\* C18: cancel_job on a job that is still in the queue returns False and
\* changes nothing: the job keeps its place in the queue and, as a job that
\* nobody tried to cancel (C14), is later dequeued and gets its completed
\* record.
C18_CancelQueuedRefused ==
    /\ [][\A j \in JobIds :
             (InQueue(j) /\ cancel_job(j)) =>
                 /\ CancelReturns(j, FALSE)
                 /\ UNCHANGED <<registry_vars, executor_queue, now>>]_vars
    /\ \A j \in 1..MaxJobs :
          (/\ max_concurrent_batches >= 1
           /\ InQueue(j)
           /\ last_cancel = Some([job_id |-> j, returned |-> FALSE]))
              ~> (/\ j \in DOMAIN completed_jobs
                  /\ IsCompletedRecord(completed_jobs[j]))

\* C18 witness: cancel_job was called for a job that is behind another in
\* the queue, and returned False.
C18_Witness ==
    /\ Len(job_queue) = 2
    /\ last_cancel = Some([job_id |-> job_queue[2], returned |-> FALSE])


\* C19: cancel_job is advisory. The wrapper of a cancelled job runs to its
\* end and leaves a record; when the batch was run (the record is not the
\* entry of a pool failure) every item of the job has the BatchResult the
\* item processor gives it.
C19_CancelledJobStillRuns ==
    \A j \in cancelled :
        wpc[j] = "done" =>
            /\ j \in DOMAIN completed_jobs
            /\ IsCompletedRecord(completed_jobs[j]) =>
                  /\ OnePerItem(completed_jobs[j].results, jobs[j].items)
                  /\ \A i \in DOMAIN jobs[j].items :
                        process_item(config, jobs[j].items[i])
                            \in Range(completed_jobs[j].results)

\* C19 witness: a cancelled job of three items, one of them failing, ended
\* with a result for each.
C19_Witness ==
    \E j \in cancelled :
        /\ wpc[j] = "done"
        /\ j \in DOMAIN completed_jobs
        /\ IsCompletedRecord(completed_jobs[j])
        /\ completed_jobs[j].total_items = 3
        /\ completed_jobs[j].successful = 2
        /\ completed_jobs[j].failed = 1


\* C20: an entry leaves the completed map only when its completed_at is
\* more than max_age_hours (1 hour) before the current time, so a younger
\* entry stays retrievable; and cleanup changes neither the job queue nor
\* the active map.
C20_CleanupEvictsOnlyOld ==
    [][/\ \A j \in DOMAIN completed_jobs :
             j \notin DOMAIN completed_jobs' =>
                 completed_jobs[j].completed_at < now - max_age_hours
       /\ \A j \in DOMAIN completed_jobs \cap DOMAIN completed_jobs' :
             completed_jobs'[j] = completed_jobs[j]
       /\ dispatcher_cleanup => UNCHANGED <<job_queue, active_jobs>>]_vars

\* C20 witness: cleanup has evicted an old entry and a younger entry is
\* still in the completed map.
C20_Witness ==
    /\ evicted # {}
    /\ \E j \in DOMAIN completed_jobs :
          completed_jobs[j].completed_at >= now - max_age_hours


\* Items of the process_batch call that hold the semaphore.
InFlight == {i \in DOMAIN d_state : d_state[i] \in {"queued", "enhancing"}}

\* C21: during a process_batch call with max_concurrent >= 1, at most
\* max_concurrent of its items hold the semaphore at once, whatever the
\* number of prompts.
C21_InFlightWithinMaxConcurrent ==
    d_pc = "running" =>
        /\ Cardinality(InFlight) <= d_max_concurrent
        /\ Cardinality(InFlight) + d_sem = d_max_concurrent

\* C21 witness: a call of three prompts with max_concurrent = 2 has two
\* items in flight and the third waiting for the semaphore.
C21_Witness ==
    /\ d_pc = "running"
    /\ d_max_concurrent = 2
    /\ Cardinality(InFlight) = 2
    /\ \E i \in DOMAIN d_state : d_state[i] = "wait"


\* C22: no step of a process_batch call, whatever the outcome of its
\* items, changes the job queue, the active map or the completed map, and
\* while a call runs the dispatcher still dequeues exactly when the queue
\* is non-empty and the active map, which holds submitted jobs only, is
\* below max_concurrent_batches: the call is not counted.
C22_DirectPathLeavesRegistry ==
    [][/\ direct_vars' # direct_vars =>
             UNCHANGED <<jobs, job_queue, active_jobs, completed_jobs>>
       /\ (d_pc = "running" /\ disp_pc = "check" /\ disp_pc' # "check") =>
             (disp_pc' = "get" <=>
                 /\ job_queue # <<>>
                 /\ Cardinality(active_jobs) < max_concurrent_batches)
       /\ active_jobs' \subseteq 1..Len(jobs')]_vars

\* C22 witness: with max_concurrent_batches = 1 and items of a running call
\* in flight, the dispatcher has decided to dequeue the job.
C22_Witness ==
    /\ max_concurrent_batches = 1
    /\ d_pc = "running"
    /\ Cardinality(InFlight) >= 1
    /\ disp_pc = "get"


\* C23: a process_batch call with max_concurrent >= 1 eventually returns,
\* and when it returns every one of its items has completed or failed and
\* has its result in the returned list.
C23_DirectCallReturns ==
    /\ [](d_pc = "returned" =>
            /\ \A i \in DOMAIN d_state : d_state[i] = "done"
            /\ Len(d_return) = Len(d_items))
    /\ (d_pc = "running") ~> (d_pc = "returned")

\* C23 witness: a call of three prompts with max_concurrent = 1 has
\* returned while a job was in the active map.
C23_Witness ==
    /\ d_pc = "returned"
    /\ d_max_concurrent = 1
    /\ Len(d_return) = 3
    /\ active_jobs # {}


\* Items that item processors are executing for dispatched jobs.
RunningItems == {<<j, i>> \in JobIds \X (1..BatchItems) :
                    i \in DOMAIN item_state[j] /\ item_state[j][i] = "running"}

\* C24 (as claimed): at most max_workers items of dispatched jobs are being
\* executed at once, however many jobs are processing. Every
\* _process_batch_sync call builds a pool of max_workers threads of its
\* own, so each processing job runs up to max_workers items.
C24_ItemsWithinMaxWorkers == Cardinality(RunningItems) <= max_workers


\* The delivery attempts made for job j.
Attempts(j) == {k \in DOMAIN callback_log : callback_log[k].job_id = j}

\* The wrapper of job j is past the callback step.
PastCallback(j) == wpc[j] \in {"finally", "done"}

\* C25: callback delivery is at-most-once and isolated from job state. No
\* job has more than one delivery attempt; a job with a callback_url whose
\* wrapper stored a completed record and went on has exactly one; after a
\* failed attempt the job's record is still the completed record that was
\* posted, the wrapper goes on to its finally step, and once the wrapper
\* is over the job is out of the active map.
C25_CallbackOnceAndIsolated ==
    /\ \A j \in JobIds : Cardinality(Attempts(j)) <= 1
    /\ \A j \in JobIds :
          (/\ PastCallback(j)
           /\ jobs[j].callback_url # None
           /\ j \in DOMAIN completed_jobs
           /\ IsCompletedRecord(completed_jobs[j]))
              => Cardinality(Attempts(j)) = 1
    /\ \A k \in DOMAIN callback_log :
          ~callback_log[k].delivered =>
              LET j == callback_log[k].job_id
              IN  /\ PastCallback(j)
                  /\ j \in DOMAIN completed_jobs
                  /\ completed_jobs[j] = callback_log[k].payload
                  /\ IsCompletedRecord(completed_jobs[j])
                  /\ wpc[j] = "done" => j \notin active_jobs

\* A delivery failed and the job's wrapper is over: the job has left the
\* active map and its completed record is in the completed map.
C25_Witness ==
    \E k \in DOMAIN callback_log :
        /\ ~callback_log[k].delivered
        /\ wpc[callback_log[k].job_id] = "done"
        /\ callback_log[k].job_id \notin active_jobs
        /\ IsCompletedRecord(completed_jobs[callback_log[k].job_id])
        /\ Len(callback_log) = 1


\* C26: the notifier is called only for a job whose callback_url is set,
\* only once that job's completed record is in the completed map, with
\* that record as payload, and never for a job whose entry is a job-level
\* failure.
C26_CallbackOnlyForCompleted ==
    \A k \in DOMAIN callback_log :
        LET j == callback_log[k].job_id
        IN  /\ jobs[j].callback_url # None
            /\ j \in DOMAIN completed_jobs
            /\ callback_log[k].payload = completed_jobs[j]
            /\ callback_log[k].payload.job_id = j
            /\ IsCompletedRecord(callback_log[k].payload)
            /\ ~IsFailureRecord(completed_jobs[j])

\* The notifier was called and delivered the record of a job that has a
\* callback_url, while the job is still in the active map.
C26_Witness ==
    /\ callback_log # <<>>
    /\ callback_log[1].delivered
    /\ jobs[callback_log[1].job_id].callback_url # None
    /\ callback_log[1].payload = completed_jobs[callback_log[1].job_id]
    /\ callback_log[1].job_id \in active_jobs


\* C27: when the work of a job raises outside the isolation of its items,
\* the step of the except branch stores a job-level failure entry for the
\* job (an error, no results, no total_items, no successful count), leaves
\* the records of the other jobs as they were and goes on to the finally
\* step; the entry is not replaced afterwards, and a wrapper that is over
\* has its job out of the active map.
C27_JobLevelFailure ==
    [][\A j \in JobIds :
         /\ (wpc[j] = "except" /\ wpc'[j] # "except") =>
                /\ wpc'[j] = "finally"
                /\ j \in DOMAIN completed_jobs'
                /\ DOMAIN completed_jobs'[j] = {"job_id", "error", "completed_at", "failed"}
                /\ completed_jobs'[j].failed = TRUE
                /\ \A o \in DOMAIN completed_jobs \ {j} :
                      /\ o \in DOMAIN completed_jobs'
                      /\ completed_jobs'[o] = completed_jobs[o]
                /\ DOMAIN completed_jobs' = DOMAIN completed_jobs \cup {j}
         /\ (j \in DOMAIN completed_jobs /\ IsFailureRecord(completed_jobs[j])) =>
                /\ j \in DOMAIN completed_jobs'
                /\ completed_jobs'[j] = completed_jobs[j]
         /\ wpc'[j] = "done" => j \notin active_jobs']_vars

\* One job completed and the other failed at job level: the wrappers of
\* both are over, the active map is empty, and each has its own record.
C27_Witness ==
    /\ Len(jobs) = 2
    /\ wpc[1] = "done" /\ wpc[2] = "done"
    /\ active_jobs = {}
    /\ DOMAIN completed_jobs = {1, 2}
    /\ IsCompletedRecord(completed_jobs[1])
    /\ IsFailureRecord(completed_jobs[2]) /\ ~IsCompletedRecord(completed_jobs[2])


\* C28 (as claimed): once shutdown() has returned the active map is empty
\* and stays empty, every job taken from the queue by then has its record
\* in the completed map, and no step takes a job from the queue any more.
\* The join of the dispatcher thread has a timeout and its result is not
\* looked at: shutdown() can return while the dispatcher is still inside an
\* iteration, which then takes a job from the queue and loses it, because
\* the pool no longer accepts work.
C28_ShutdownStopsAndWaits ==
    [][shut_pc' = "returned" =>
          /\ active_jobs' = {}
          /\ shut_pc # "returned" =>
                \A j \in JobIds : Dequeued(j)' => j \in DOMAIN completed_jobs'
          /\ shut_pc = "returned" => Len(job_queue') >= Len(job_queue)]_vars


\* C29: submit_job can be taken in every state, whatever the length of the
\* queue, the size of the active map and the progress of shutdown(); a
\* step that issues a job issues exactly one, under an id no job had
\* before, appends that id at the tail of the queue, and leaves the active
\* map, the completed map, the pool's work queue and the dispatcher as
\* they were.
C29_SubmitAppendsOnly ==
    /\ [](ENABLED submit_job(ItemsOf(<< <<" ", "a">> >>), None, 0, None))
    /\ [][jobs' # jobs =>
             /\ Len(jobs') = Len(jobs) + 1
             /\ SubSeq(jobs', 1, Len(jobs)) = jobs
             /\ jobs'[Len(jobs')].job_id \notin {jobs[k].job_id : k \in DOMAIN jobs}
             /\ job_queue' = Append(job_queue, jobs'[Len(jobs')].job_id)
             /\ UNCHANGED <<active_jobs, completed_jobs, executor_queue, disp_pc,
                            disp_job, cancelled, evicted, callback_log>>
             /\ UNCHANGED shutdown_vars]_vars

\* The job issued last is at the tail of the queue while the active map
\* holds max_concurrent_batches jobs and shutdown() has been called.
C29_Witness ==
    /\ Len(jobs) = 2
    /\ job_queue = <<2>>
    /\ max_concurrent_batches = 1
    /\ active_jobs = {1}
    /\ shutdown_event


\* C30: the dispatcher goes on to the dequeue exactly when its test saw a
\* job in the queue and fewer than max_concurrent_batches jobs in the
\* active map; the queue loses a job only in that dequeue step, which
\* takes the head and nothing else; the dispatcher does not come back to
\* the dequeue before the next test, and its other steps leave the queue
\* as it was.
C30_DequeueOnlyAfterTest ==
    [][/\ (disp_pc = "check" /\ disp_pc' # "check") =>
             /\ disp_pc' \in {"get", "cleanup"}
             /\ disp_pc' = "get" <=> /\ job_queue # <<>>
                                     /\ Cardinality(active_jobs) < max_concurrent_batches
       /\ disp_pc' = "get" => disp_pc \in {"check", "get"}
       /\ disp_pc = "get" => job_queue # <<>>
       /\ Len(job_queue') < Len(job_queue) =>
             /\ disp_pc = "get" /\ disp_pc' = "submit"
             /\ job_queue' = Tail(job_queue)
             /\ disp_job' = Head(job_queue)
       /\ (disp_pc' # disp_pc /\ disp_pc # "get") => job_queue' = job_queue]_vars

\* The dispatcher has tested and gone on to the cleanup without a dequeue:
\* a job waits in the queue behind an active map that holds
\* max_concurrent_batches jobs, the first of which it dequeued in an
\* earlier iteration.
C30_Witness ==
    /\ max_concurrent_batches = 1
    /\ active_jobs = {1}
    /\ job_queue = <<2>>
    /\ disp_pc = "cleanup"
    /\ wpc[1] = "batch"


\* C31 (as claimed): the status a caller is given for a job never goes
\* back: a call that returns a status returns one at least as far on as
\* every status returned for that job before. cancel_job pops a running
\* job from the active map, and _cleanup_old_jobs removes the record of a
\* finished one; in both cases the job is in neither map and the next call
\* falls through to 'queued'.
C31_StatusMonotone ==
    [][\A r \in q_result' :
          (q_pc # "idle" /\ q_pc' = "idle" /\ r # KeyError) =>
              StatusRank(r.status) >= q_reported[q_job]]_vars


\* The jobs whose wrapper has started and is not over.
Executing ==
    {j \in JobIds :
        wpc[j] \in {"batch", "except", "except_lookup", "callback", "finally"}}

\* C32 (as claimed): at most max_concurrent_batches jobs are executing,
\* also after cancel_job took a running job out of the active map. The
\* wrapper of a cancelled job runs on while the dispatcher, which counts
\* the active map only, dequeues the next job into the freed slot.
C32_ExecutingWithinLimit == Cardinality(Executing) <= max_concurrent_batches


\* C33 (as claimed): while the callback of a job is in flight the job is in
\* the completed map and still in the active map, get_job_status reports
\* it completed, and a dispatcher test that finds the active map at the
\* limit does not go on to a dequeue; a job with a callback_url and a
\* completed record leaves the active map only after its delivery attempt.
\* cancel_job pops the job from the active map while the attempt is in
\* flight.
C33_ActiveUntilCallbackReturns ==
    [][\A j \in JobIds :
         /\ wpc[j] = "callback" =>
               /\ j \in active_jobs
               /\ j \in DOMAIN completed_jobs
               /\ get_job_status(j) = "completed"
               /\ (/\ disp_pc = "check" /\ disp_pc' # "check"
                   /\ Cardinality(active_jobs) >= max_concurrent_batches)
                     => disp_pc' # "get"
         /\ (/\ j \in active_jobs /\ j \notin active_jobs'
             /\ jobs[j].callback_url # None
             /\ j \in DOMAIN completed_jobs
             /\ IsCompletedRecord(completed_jobs[j]))
               => Attempts(j) # {}]_vars


\* C34 (as claimed): no dequeued job is lost, also when shutdown() runs
\* next to the dispatcher: the step that follows the dequeue puts the
\* job's wrapper on the work queue of the pool, and once the dispatcher has
\* stopped and shutdown() has returned every job that left the queue has
\* its record in the completed map. When the join of the dispatcher thread
\* times out, the pool is shut down under the dispatcher: submit raises,
\* line 114 swallows the error and the job is dropped.
C34_NoDequeuedJobLost ==
    [][/\ (disp_pc = "submit" /\ disp_pc' # "submit") =>
             /\ wpc'[disp_job] = "pending"
             /\ JobWork(disp_job) \in Range(executor_queue')
       /\ (disp_pc' = "stopped" /\ shut_pc' = "returned") =>
             \A j \in JobIds : Dequeued(j)' => j \in DOMAIN completed_jobs']_vars


\* A step that leaves the queue as it is or appends one job to it.
QueueOnlyGrows ==
    \/ job_queue' = job_queue
    \/ /\ Len(job_queue') = Len(job_queue) + 1
       /\ SubSeq(job_queue', 1, Len(job_queue)) = job_queue

\* C35 (as claimed): from the call of shutdown() on no job leaves the
\* queue: the jobs queued at the call and the jobs submitted after it stay
\* there, with status 'queued'. The dispatcher looks at the event only in
\* its while test: an iteration that has passed the test when shutdown()
\* sets the event still dequeues the head of the queue.
C35_QueueFrozenAtShutdown ==
    [][shutdown_event =>
          /\ QueueOnlyGrows
          /\ \A j \in Range(job_queue') : get_job_status(j)' = "queued"]_vars

\* C35 (amended): the iteration in progress when shutdown() is called may
\* still dequeue a job; at its end the dispatcher sees the event and
\* stops, and from then on no job leaves the queue: the jobs in it and the
\* jobs submitted afterwards stay queued, with status 'queued'.
C35_QueueFrozenOnceStopped ==
    [][/\ (shutdown_event /\ disp_pc = "cleanup" /\ disp_pc' # "cleanup") =>
             disp_pc' = "stopped"
       /\ disp_pc = "stopped" =>
             /\ disp_pc' = "stopped"
             /\ QueueOnlyGrows
             /\ \A j \in Range(job_queue') : get_job_status(j)' = "queued"]_vars

\* The dispatcher has stopped and shutdown() has returned after the first
\* job was run; the second job sits in the queue and is reported queued.
C35_Witness ==
    /\ disp_pc = "stopped"
    /\ shut_pc = "returned"
    /\ 1 \in DOMAIN completed_jobs
    /\ job_queue = <<2>>
    /\ get_job_status(2) = "queued"


\* The enhance_prompt calls of the direct path that hold a thread of
\* self.executor, and those that wait on its work queue.
Enhancing == {i \in DOMAIN d_state : d_state[i] = "enhancing"}
EnhanceWaiting == {i \in DOMAIN d_state : EnhanceWork(i) \in Range(executor_queue)}

\* A step of the work that holds or waits for a thread of self.executor.
PoolStep ==
    \/ \E j \in JobIds : Wrapper(j)
    \/ \E i \in DOMAIN d_state : enhance_start(i) \/ enhance_finish(i)

\* C36: job wrappers and the enhance_prompt calls of process_batch run on
\* the threads of the same pool: the running wrappers plus the running
\* calls never exceed max_workers; while wrappers hold every thread no
\* waiting call can start; and whenever a call waits, some work of the pool
\* can take a step, so the pool never deadlocks.
C36_SharedPoolWithinMaxWorkers ==
    /\ Cardinality(Executing) + Cardinality(Enhancing) <= max_workers
    /\ Cardinality(Executing) = max_workers =>
          \A i \in DOMAIN d_state : ~ENABLED enhance_start(i)
    /\ EnhanceWaiting # {} => ENABLED PoolStep

\* Job wrappers hold every thread of the pool while a call of the direct
\* path waits on the work queue.
C36_Witness ==
    /\ Cardinality(Executing) = max_workers
    /\ EnhanceWaiting # {}
    /\ d_pc = "running"


\* C37 (as claimed): when process_json_file or process_csv_file, called
\* with a batch_size of 1 or more, is done, the output has one entry per
\* input row, and entry i holds row i and the result computed for row i.
\* The results of a chunk come back in the order its items completed, and
\* the output pairs them with the rows by position.
C37_FileOutputPairsRows ==
    (f_pc = "done" /\ f_batch_size >= 1) =>
        /\ Len(f_output) = Len(f_data)
        /\ \A i \in DOMAIN f_output :
              f_output[i] =
                  OutputEntry(f_kind, f_data[i],
                              process_item(config, [id |-> FileItemId(f_kind, 0, i - 1),
                                                    prompt |-> f_data[i]]))


\* C38: a process_batch call with max_concurrent = 0 and at least one
\* prompt never returns: none of its tasks gets past the semaphore, so
\* nothing is handed to the pool and no result is stored; a call with no
\* prompt can return at once, whatever max_concurrent is, and returns the
\* empty list.
C38_ZeroConcurrencyNeverReturns ==
    /\ (d_max_concurrent = 0 /\ d_items # <<>>) =>
          /\ d_pc # "returned"
          /\ \A i \in DOMAIN d_state : d_state[i] = "wait" /\ d_slots[i] = None
          /\ d_pc = "running" => ~ENABLED DirectStep
    /\ (d_pc = "running" /\ d_items = <<>>) => ENABLED process_batch_return
    /\ (d_pc = "returned" /\ d_items = <<>>) => d_return = <<>>

\* A call with max_concurrent = 0 and three prompts, one of them blank, is
\* running and stuck.
C38_Witness ==
    /\ d_pc = "running"
    /\ d_max_concurrent = 0
    /\ Len(d_items) = 3
    /\ \E i \in DOMAIN d_items : validate_input(d_items[i].prompt).raised
    /\ ~ENABLED DirectStep


\* C39: an exception inside a dispatcher iteration does not end the
\* dispatcher. The thread never dies; its loop ends only with the shutdown
\* event set; an iteration whose cleanup raised (timedelta unbound) or
\* whose submission the pool refused goes back to the while test like any
\* other; and as long as shutdown is not signalled the dispatcher can take
\* its next step.
C39_DispatcherSurvivesExceptions ==
    [][/\ disp_pc' # "dead"
       /\ disp_pc' = "stopped" => shutdown_event'
       /\ (/\ disp_pc # disp_pc'
           /\ \/ disp_pc = "cleanup" /\ ~names_bound
              \/ disp_pc = "submit" /\ executor_down)
             => disp_pc' = (IF shutdown_event THEN "stopped" ELSE "check")
       /\ ~shutdown_event => ENABLED Dispatcher]_vars

\* Every iteration so far ended in the caught NameError of the cleanup,
\* shutdown is not signalled, and the second job has been dispatched after
\* the first one was run.
C39_Witness ==
    /\ ~names_bound
    /\ ~shutdown_event
    /\ Len(jobs) = 2
    /\ 1 \in DOMAIN completed_jobs
    /\ wpc[2] = "pending"
    /\ disp_pc = "cleanup"

====
